---- MODULE Spec2Model ----
(***************************************************************************)
(* Client-side task execution and submission protocol of iceplunge:        *)
(* TaskCore (task_core.js) and the five task modules (pvt, sart, flanker,  *)
(* digit_symbol, mood).                                                    *)
(*                                                                         *)
(* One page holds one TaskCore and one task instance.  Every action is one *)
(* event-loop task of the browser: an event handler or a timer callback,   *)
(* together with every function it calls and the promise reactions that    *)
(* run before the next event-loop task.                                    *)
(***************************************************************************)
EXTENDS Naturals, Sequences, FiniteSets

VARIABLES
  listenersAttached,  \* TaskCore.init has run (_attachLifecycleListeners)
  _sessionId,         \* task_core.js: _sessionId
  _interruptions,     \* task_core.js: _interruptions (sequence of event types)
  _activeTask,        \* task_core.js: _activeTask ("null" or the task type)
  online,             \* navigator.onLine
  visibility,         \* document.visibilityState
  location,           \* window.location ("task_page" until a task navigates)
  task,               \* the closure variables of the task module's init()
  submits,            \* every TaskCore.submit call made so far, with its outcome
  prev,               \* the closure of a task that registerTask has superseded
  clock,              \* time since the task started, and how much of it paused
  rng,                \* two generators made by makeRng, with the draws of each
  built,                \* the trial records a task builds, with their content
  ds,                 \* the digit-symbol closure: generator, symbolMap, trial
  run                 \* a SART run against the clock, in milliseconds

vars == <<listenersAttached, _sessionId, _interruptions, _activeTask, online,
          visibility, location, task, submits, prev, clock, rng, built, ds, run>>

\* the state of the page
pageVars == <<listenersAttached, _sessionId, _interruptions, _activeTask, online,
              visibility, location, task, submits, prev, clock, rng>>

----------------------------------------------------------------------------
(* Bounds of the model                                                     *)

\* lifecycle events logged per page
MaxEvents == 2
\* trial records per run
MaxTrials == 3
\* stimuli presented per run by pvt, flanker and digit_symbol
MaxStim == 2
\* length of the pre-generated SART sequence (sequence.length)
SeqLen == 3
\* TaskCore.submit calls per page
MaxSubmits == 2
\* draws taken from one generator
MaxDraws == 2
\* config.durationMs, in clock ticks
DurationTicks == 2
\* clock ticks per page
MaxTicks == 3
\* sart trial records built with their content
MaxSartRecords == 2
\* flanker trial records built with their content
MaxFlankerRecords == 2
\* digit-symbol trials shown per session
MaxDsTrials == 3
\* characters of a session seed of the digit-symbol task
MaxSeedLen == 5
\* pvt trial records built with their content
MaxPvtRecords == 1
\* stimuli presented in a run of a timed task
MaxShown == 3

----------------------------------------------------------------------------
(* Vocabulary                                                              *)

TimedTypes == {"pvt", "sart", "flanker", "digit_symbol"}
TaskTypes  == TimedTypes \cup {"mood"}

\* the timer handle variables of the task closures
Handles == {"isiTimer", "noResponseTimer", "animTimer", "taskEndTimer", "trialTimer"}
\* the callbacks a pending timer can hold
Kinds == {"isi", "noResp", "anim", "end", "t1", "t2"}

HandleOf(k) ==
  CASE k = "isi"    -> "isiTimer"
    [] k = "noResp" -> "noResponseTimer"
    [] k = "anim"   -> "animTimer"
    [] k = "end"    -> "taskEndTimer"
    [] OTHER        -> "trialTimer"

\* mood.js SCALES
SCALES == {"valence", "arousal", "stress", "sharpness"}
\* the rating value a participant picks in the model (one of the buttons 1..5)
RatingVals == {4}

\* task_core.js submit(): REQUIRED
REQUIRED == <<"session_id", "task_type", "task_version", "started_at", "ended_at",
              "duration_ms", "input_modality", "trials", "summary">>

Fields == {REQUIRED[i] : i \in 1..Len(REQUIRED)}

\* a task payload that also carries session_id
TaskPayload_WithSessionId == {"session_id", "task_type", "task_version", "started_at",
                              "ended_at", "duration_ms", "input_modality", "trials",
                              "summary"}

\* the keys of the object literal every task module hands to TaskCore.submit
TaskPayload == {"task_type", "task_version", "started_at", "ended_at",
                "duration_ms", "input_modality", "trials", "summary"}

\* the response statuses of the submission endpoint; 0 is a network failure
Statuses == {0, 201, 403, 409, 422}

----------------------------------------------------------------------------
(* Timers.  task.cur[h] is the callback of the pending timer whose id the  *)
(* handle variable h holds ("none": h is null or its timer is gone).       *)
(* task.leaked[k] counts the pending timers with callback k whose id no    *)
(* variable holds any more (the variable was overwritten).                 *)

NoTimers == [h \in Handles |-> "none"]
NoLeaked == [k \in Kinds |-> 0]

\* h = setTimeout(callback k) / requestAnimationFrame(k)
setTimer(t, h, k) ==
  [t EXCEPT !.cur[h] = k,
            !.leaked = IF t.cur[h] = "none" THEN @
                       ELSE [@ EXCEPT ![t.cur[h]] = @ + 1]]

\* clearTimeout(h) / cancelAnimationFrame(h)
clearTimer(t, h) == [t EXCEPT !.cur[h] = "none"]

PendingTimers(t) ==
  Cardinality({h \in Handles : t.cur[h] # "none"})
  + t.leaked["isi"] + t.leaked["noResp"] + t.leaked["anim"]
  + t.leaked["end"] + t.leaked["t1"] + t.leaked["t2"]

\* the timer with callback k fires: src says whether its id is still held
CanFire(t, k, src) ==
  IF src = "held" THEN t.cur[HandleOf(k)] = k ELSE t.leaked[k] > 0

Fired(t, k, src) ==
  IF src = "held" THEN [t EXCEPT !.cur[HandleOf(k)] = "none"]
  ELSE [t EXCEPT !.leaked[k] = @ - 1]

----------------------------------------------------------------------------
(* The seeded generator makeRng (the same code in pvt, sart, flanker and   *)
(* digit_symbol, with its own constants and salt in each).  A 32-bit value *)
(* is the pair <<high 16 bits, low 16 bits>> of its unsigned form.         *)

Half == 65536

\* 16-bit values, and 32-bit values as <<high half, low half>>
Half16 == 0..(Half - 1)
Word32 == Half16 \X Half16

\* the 32-bit value of a number below 2^31
Int32(n) == <<n \div Half, n % Half>>

\* (a + b) | 0
add32 ==
  [a \in Word32, b \in Word32 |->
     <<(a[1] + b[1] + ((a[2] + b[2]) \div Half)) % Half, (a[2] + b[2]) % Half>>]

\* the 32-bit product of two 16-bit values
mul16 ==
  [x \in Half16, y \in Half16 |->
     LET p0 == x * (y % 256)
         p1 == x * (y \div 256)
         l  == p0 + ((p1 % 256) * 256)
     IN <<((p1 \div 256) + (l \div Half)) % Half, l % Half>>]

\* Math.imul(a, b)
imul ==
  [a \in Word32, b \in Word32 |->
     <<(mul16[a[2], b[2]][1] + mul16[a[1], b[2]][2] + mul16[a[2], b[1]][2]) % Half,
       mul16[a[2], b[2]][2]>>]

\* bit i of x ^ y (op = "xor") or of x | y (op = "or")
bit(op, x, y, i) ==
  LET both == ((x \div (2 ^ i)) % 2) + ((y \div (2 ^ i)) % 2)
  IN IF op = "xor" THEN both % 2 ELSE IF both > 0 THEN 1 ELSE 0

\* x ^ y or x | y on 16-bit values
bitop ==
  [op \in {"xor", "or"}, x \in Half16, y \in Half16 |->
     bit(op, x, y, 0) + (2 * bit(op, x, y, 1)) + (4 * bit(op, x, y, 2))
     + (8 * bit(op, x, y, 3)) + (16 * bit(op, x, y, 4)) + (32 * bit(op, x, y, 5))
     + (64 * bit(op, x, y, 6)) + (128 * bit(op, x, y, 7)) + (256 * bit(op, x, y, 8))
     + (512 * bit(op, x, y, 9)) + (1024 * bit(op, x, y, 10))
     + (2048 * bit(op, x, y, 11)) + (4096 * bit(op, x, y, 12))
     + (8192 * bit(op, x, y, 13)) + (16384 * bit(op, x, y, 14))
     + (32768 * bit(op, x, y, 15))]

\* a ^ b
xor32 == [a \in Word32, b \in Word32 |->
            <<bitop["xor", a[1], b[1]], bitop["xor", a[2], b[2]]>>]

\* a | b
or32 == [a \in Word32, b \in Word32 |->
           <<bitop["or", a[1], b[1]], bitop["or", a[2], b[2]]>>]

\* a >>> k, for k below 16
shr == [a \in Word32, k \in 1..15 |->
          <<a[1] \div (2 ^ k),
            ((a[1] % (2 ^ k)) * (Half \div (2 ^ k))) + (a[2] \div (2 ^ k))>>]

\* the generating task types and what each appends to config.seed
RngTasks == {"pvt", "sart", "flanker", "digit_symbol"}

Salt(type) ==
  CASE type = "pvt"     -> <<95, 112, 118, 116>>                      \* "_pvt"
    [] type = "sart"    -> <<95, 115, 97, 114, 116>>                  \* "_sart"
    [] type = "flanker" -> <<95, 102, 108, 97, 110, 107, 101, 114>>   \* "_flanker"
    [] OTHER            -> <<95, 100, 115>>                           \* "_ds"

\* the multiplier and increment of the step that follows the string hash
LcgMul(type) ==
  CASE type \in {"pvt", "flanker"} -> 1664525
    [] type = "sart"               -> 22695477
    [] OTHER                       -> 69069

LcgAdd(type) == IF type \in {"pvt", "flanker"} THEN 1013904223 ELSE 1

\* a generator that starts its hash from the state another generator left
hashStart_Carried(left) == left

\* makeRng: var h = 0, whatever an earlier generator has left behind
hashStart(left) == Int32(0)

\* makeRng: one turn of the loop, h = (Math.imul(31, h) + seed.charCodeAt(i)) | 0
hashStep == [h \in Word32, code \in Half16 |-> add32[imul[Int32(31), h], Int32(code)]]

\* makeRng: the loop over the characters of the seed, starting from h
hashLoop(h, seed) ==
  LET hs[i \in 0..Len(seed)] == IF i = 0 THEN h ELSE hashStep[hs[i - 1], seed[i]]
  IN hs[Len(seed)]

\* makeRng(seed): the state h of the generator it returns
makeRng(type, seed, left) ==
  add32[imul[hashLoop(hashStart(left), seed), Int32(LcgMul(type))],
        Int32(LcgAdd(type))]

\* one call of the generator: its new state and the 32-bit value whose
\* quotient by 2^32 it returns
draw(h) ==
  LET h1 == add32[h, Int32(1831565813)]
      t  == imul[xor32[h1, shr[h1, 15]], or32[Int32(1), h1]]
      t2 == xor32[t, add32[t, imul[xor32[t, shr[t, 7]], or32[Int32(61), t]]]]
  IN [h |-> h1, u |-> xor32[t2, shr[t2, 14]]]

\* init(config): rng = makeRng((config.seed || "") + salt)
newRng(type, seed, left) ==
  [task |-> type, h |-> makeRng(type, seed \o Salt(type), left), out |-> <<>>]

\* rng()
nextDraw(g) == LET d == draw(g.h) IN [g EXCEPT !.h = d.h, !.out = Append(@, d.u)]

\* pvt.js constants
ISI_MIN == 2000
ISI_MAX == 10000

\* floor(x * n) for the draw x = u / 2^32 and a whole n up to 32767.  The
\* product is exact in double precision (u * n has fewer than 53 bits).
floorOf == [u \in Word32, n \in 0..32767 |->
            ((u[1] * n) + ((u[2] * n) \div Half)) \div Half]

\* a wait floorOfd over the whole of ISI_MAX
randomISI_FullScale(u) == ISI_MIN + floorOf[u, ISI_MAX]

\* pvt randomISI() for the draw u / 2^32: the whole milliseconds of
\* ISI_MIN + rng() * (ISI_MAX - ISI_MIN)
randomISI(u) == ISI_MIN + floorOf[u, ISI_MAX - ISI_MIN]

NoRng == [seed |-> <<>>, a |-> [task |-> "none", h |-> <<0, 0>>, out |-> <<>>],
                         b |-> [task |-> "none", h |-> <<0, 0>>, out |-> <<>>]]

\* the session seeds of the model: "", "abc", "gqmyusa", "bkfzhd"
Seeds == {<<>>, <<97, 98, 99>>, <<103, 113, 109, 121, 117, 115, 97>>,
          <<98, 107, 102, 122, 104, 100>>}

----------------------------------------------------------------------------
(* The task closure                                                        *)

NoRatings == [s \in SCALES |-> 0]

IdleTask ==
  [type |-> "none",
   isRunning |-> FALSE, isPaused |-> FALSE, isStopped |-> FALSE,
   trials |-> <<>>,
   stimulusStartMs |-> "null",   \* pvt: null during the ISI, set while visible
   presented |-> 0,              \* stimuli presented (sart: seqIndex)
   responded |-> FALSE,          \* sart, flanker
   currentTrial |-> "null",      \* flanker
   cur |-> NoTimers, leaked |-> NoLeaked,
   ratings |-> NoRatings,        \* mood
   submitDisabled |-> TRUE,      \* mood: submitBtn.disabled
   message |-> "none",           \* "submitting" / "error" text shown by the task
   endedBy |-> "none",           \* what made endTask's body run
   abortCalled |-> FALSE,        \* abort(reason) has been called on the task
   lastCall |-> "none",          \* the last interface method TaskCore called
   pausedAt |-> 0]               \* 1 + presented at the last pause() (0: none)

\* a computation inside one handler: the closure, the submit log, the
\* interruption log as the handler has left it, and whether the handler stays
\* inside the bounds of the model
Ctx(t, s, log) == [task |-> t, submits |-> s, log |-> log, ok |-> TRUE]

push(c, rec) ==
  IF Len(c.task.trials) >= MaxTrials THEN [c EXCEPT !.ok = FALSE]
  ELSE [c EXCEPT !.task.trials =
          Append(@, [stim |-> rec.stim, responded |-> rec.responded,
                     \* pause() was called since the onset of the stimulus
                     paused |-> (c.task.pausedAt = c.task.presented + 1)])]

----------------------------------------------------------------------------
(* TaskCore (task_core.js)                                                 *)

\* a validation loop that stops one field short of the end of REQUIRED
MissingField_ShortLoop(payload) ==
  \E i \in 1..(Len(REQUIRED) - 1) : REQUIRED[i] \notin DOMAIN payload

\* submit(): the loop over REQUIRED finds a field that is not in the payload
MissingField(payload) == \E i \in 1..Len(REQUIRED) : REQUIRED[i] \notin DOMAIN payload

\* a submit that does not look at navigator.onLine
OfflineAtSubmit_Unchecked == FALSE

\* submit(): the navigator.onLine test made after the field validation
OfflineAtSubmit == ~online

\* Array.prototype.slice(1): a copy without the first element
slice_FromOne(a) == [i \in 1..(IF Len(a) = 0 THEN 0 ELSE Len(a) - 1) |-> a[i + 1]]

\* _interruptions.slice(): a copy of the log as it is when the body is built
slice(a) == [i \in 1..Len(a) |-> a[i]]

\* Object.assign(target, source): the target after the call, with every
\* property of the source copied over its own
Object_assign(target, source) ==
  [f \in DOMAIN target \cup DOMAIN source |->
     IF f \in DOMAIN source THEN source[f] ELSE target[f]]

\* a body assembled with the payload as the last source
buildBody_PayloadLast(payload, log) ==
  [body    |-> Object_assign(Object_assign(<<>>, [session_id |-> _sessionId,
                                                  interruptions |-> slice(log)]),
                             payload),
   payload |-> payload]

\* submit(): body = Object.assign({}, payload, {session_id, interruptions});
\* the body, and the payload object as the call leaves it
buildBody(payload, log) ==
  [body    |-> Object_assign(Object_assign(<<>>, payload),
                             [session_id |-> _sessionId, interruptions |-> slice(log)]),
   payload |-> payload]

\* one TaskCore.submit(payload) call: the entry it adds to the log.
\*   payload       the property names of the payload object; given: the object
\*                 passed, after: the object when submit returns
\*   fetched       a request was issued (fetch was called)
\*   session_id    body.session_id, interruptions: body.interruptions
\*   promise       state of the promise submit returns
NewSubmit(by, payload, trials, log) ==
  IF MissingField(payload) THEN
    [by |-> by, payload |-> DOMAIN payload, given |-> payload, after |-> payload,
     trials |-> trials, onLine |-> online,
     fetched |-> FALSE, session_id |-> "null", interruptions |-> <<>>,
     answered |-> FALSE, status |-> 0, promise |-> "rejected", error |-> "missing_field"]
  ELSE IF OfflineAtSubmit THEN
    [by |-> by, payload |-> DOMAIN payload, given |-> payload, after |-> payload,
     trials |-> trials, onLine |-> online,
     fetched |-> FALSE, session_id |-> "null", interruptions |-> <<>>,
     answered |-> FALSE, status |-> 0, promise |-> "rejected", error |-> "offline"]
  ELSE
    LET b == buildBody(payload, log) IN
    [by |-> by, payload |-> DOMAIN payload, given |-> payload, after |-> b.payload,
     trials |-> trials, onLine |-> online,
     fetched |-> TRUE, session_id |-> b.body.session_id,
     interruptions |-> b.body.interruptions,
     answered |-> FALSE, status |-> 0, promise |-> "pending", error |-> "none"]

\* the promise after the endpoint answered with status st (0: fetch failed)
Settle(e, st) ==
  [e EXCEPT !.answered = TRUE, !.status = st,
            !.promise = IF st = 0 \/ st = 422 THEN "rejected" ELSE "resolved",
            !.error = IF st = 0 THEN "network" ELSE IF st = 422 THEN "validation" ELSE "none"]

\* the .catch() reaction of a task module
onRejected(t) ==
  IF t.type = "mood" THEN [t EXCEPT !.submitDisabled = FALSE, !.message = "error"]
  ELSE [t EXCEPT !.message = "error"]

\* the .then() reaction of a task module: where it navigates to
onResolved(hasNextTask) == IF hasNextTask THEN "next_task" ELSE "complete"

\* a task module calls TaskCore.submit({..., trials: trials, summary: summary})
\* .then(...).catch(...)
taskSubmit(c, trials, summary) ==
  IF Len(c.submits) >= MaxSubmits THEN [c EXCEPT !.ok = FALSE]
  ELSE LET e == NewSubmit("task",
                          [f \in TaskPayload |-> CASE f = "trials"  -> trials
                                                   [] f = "summary" -> summary
                                                   [] OTHER         -> "v"],
                          trials, c.log) IN
       [c EXCEPT !.submits = Append(@, e),
                 !.task = IF e.promise = "rejected" THEN onRejected(@) ELSE @]

\* a logEvent that pushes the event twice
logEvent_Twice(log, type) == Append(Append(log, type), type)

\* logEvent(type, detail)
logEvent(log, type) == Append(log, type)

----------------------------------------------------------------------------
(* pvt.js                                                                  *)

pvt_clearTimers(t) ==
  clearTimer(clearTimer(clearTimer(clearTimer(t, "isiTimer"), "noResponseTimer"),
                        "animTimer"), "taskEndTimer")

pvt_startISI(c) ==
  IF ~c.task.isRunning \/ c.task.isPaused THEN c
  ELSE [c EXCEPT !.task = setTimer([@ EXCEPT !.stimulusStartMs = "null"], "isiTimer", "isi")]

pvt_showStimulus(c) ==
  IF ~c.task.isRunning \/ c.task.isPaused THEN c
  ELSE IF c.task.presented >= MaxStim THEN [c EXCEPT !.ok = FALSE]
  ELSE [c EXCEPT !.task =
          setTimer(setTimer([@ EXCEPT !.stimulusStartMs = "set", !.presented = @ + 1],
                            "animTimer", "anim"),
                   "noResponseTimer", "noResp")]

\* the animation frame callback of showStimulus
pvt_animate(c) ==
  IF c.task.stimulusStartMs = "null" \/ ~c.task.isRunning THEN c
  ELSE [c EXCEPT !.task = setTimer(@, "animTimer", "anim")]

pvt_recordResponse(c, isUserTap) ==
  IF c.task.stimulusStartMs = "null" THEN
    IF ~isUserTap THEN c
    ELSE pvt_startISI(push([c EXCEPT !.task = clearTimer(@, "isiTimer")],
                           [stim |-> 0, responded |-> TRUE]))
  ELSE
    LET c1 == [c EXCEPT !.task = clearTimer(clearTimer(@, "noResponseTimer"), "animTimer")]
        c2 == push(c1, [stim |-> c.task.presented, responded |-> isUserTap])
        c3 == [c2 EXCEPT !.task.stimulusStartMs = "null"]
    IN IF c3.task.isRunning THEN pvt_startISI(c3) ELSE c3

\* the callback of noResponseTimer
pvt_noResponse(c) ==
  IF c.task.stimulusStartMs # "null" /\ c.task.isRunning
  THEN pvt_recordResponse(c, FALSE) ELSE c

pvt_handleInteraction(c) ==
  IF ~c.task.isRunning \/ c.task.isPaused \/ c.task.isStopped THEN c
  ELSE pvt_recordResponse(c, TRUE)

pvt_endTask(c) ==
  IF c.task.isStopped THEN c
  ELSE LET t1 == pvt_clearTimers([c.task EXCEPT !.isStopped = TRUE, !.isRunning = FALSE,
                                                !.message = "submitting",
                                                !.endedBy = "timer"])
       IN taskSubmit([c EXCEPT !.task = t1], t1.trials, <<>>)

pvt_init(c) ==
  LET c1 == pvt_startISI([c EXCEPT !.task = [IdleTask EXCEPT !.type = "pvt",
                                                            !.isRunning = TRUE]])
  IN [c1 EXCEPT !.task = setTimer(@, "taskEndTimer", "end")]

pvt_pause(c) ==
  [c EXCEPT !.task = clearTimer(clearTimer(clearTimer([@ EXCEPT !.isPaused = TRUE],
                                   "isiTimer"), "noResponseTimer"), "animTimer")]

pvt_resume(c) == pvt_startISI([c EXCEPT !.task.isPaused = FALSE])

pvt_abort(c) ==
  [c EXCEPT !.task = pvt_clearTimers([@ EXCEPT !.isStopped = TRUE, !.isRunning = FALSE])]

----------------------------------------------------------------------------
(* sart.js                                                                 *)

\* an endTask without the isStopped guard
sart_endTask_Unguarded(c, via) ==
  LET t1 == clearTimer(clearTimer([c.task EXCEPT !.isStopped = TRUE,
                                                 !.isRunning = FALSE,
                                                 !.message = "submitting",
                                                 !.endedBy = via],
                                  "trialTimer"), "taskEndTimer")
  IN taskSubmit([c EXCEPT !.task = t1], t1.trials, <<>>)

sart_endTask(c, via) ==
  IF c.task.isStopped THEN c
  ELSE LET t1 == clearTimer(clearTimer([c.task EXCEPT !.isStopped = TRUE,
                                                      !.isRunning = FALSE,
                                                      !.message = "submitting",
                                                      !.endedBy = via],
                                       "trialTimer"), "taskEndTimer")
       IN taskSubmit([c EXCEPT !.task = t1], t1.trials, <<>>)

sart_showNextTrial(c) ==
  IF ~c.task.isRunning \/ c.task.isPaused \/ c.task.presented >= SeqLen THEN
    sart_endTask(c, IF c.task.presented >= SeqLen THEN "sequence" ELSE "guard")
  ELSE [c EXCEPT !.task = setTimer([@ EXCEPT !.presented = @ + 1, !.responded = FALSE],
                                   "trialTimer", "t1")]

\* the callback that hides the stimulus after STIMULUS_MS
sart_hideStimulus(c) == [c EXCEPT !.task = setTimer(@, "trialTimer", "t2")]

\* the callback that closes the trial after ISI_MS - STIMULUS_MS
sart_closeTrial(c) ==
  sart_showNextTrial(IF ~c.task.responded
                     THEN push(c, [stim |-> c.task.presented, responded |-> FALSE])
                     ELSE c)

sart_handleInteraction(c) ==
  IF ~c.task.isRunning \/ c.task.isPaused \/ c.task.isStopped \/ c.task.responded THEN c
  ELSE push([c EXCEPT !.task.responded = TRUE],
            [stim |-> c.task.presented, responded |-> TRUE])

sart_init(c) ==
  LET c1 == sart_showNextTrial([c EXCEPT !.task = [IdleTask EXCEPT !.type = "sart",
                                                                  !.isRunning = TRUE]])
  IN [c1 EXCEPT !.task = setTimer(@, "taskEndTimer", "end")]

sart_pause(c) == [c EXCEPT !.task = clearTimer([@ EXCEPT !.isPaused = TRUE], "trialTimer")]

sart_resume(c) == sart_showNextTrial([c EXCEPT !.task.isPaused = FALSE])

sart_abort(c) ==
  [c EXCEPT !.task = clearTimer(clearTimer([@ EXCEPT !.isStopped = TRUE,
                                                      !.isRunning = FALSE],
                                           "trialTimer"), "taskEndTimer")]

----------------------------------------------------------------------------
(* flanker.js                                                              *)

flanker_showNextTrial(c) ==
  IF ~c.task.isRunning \/ c.task.isPaused \/ c.task.isStopped THEN c
  ELSE IF c.task.presented >= MaxStim THEN [c EXCEPT !.ok = FALSE]
  ELSE [c EXCEPT !.task = setTimer([@ EXCEPT !.currentTrial = "set",
                                            !.presented = @ + 1,
                                            !.responded = FALSE],
                                   "trialTimer", "t1")]

\* the callback that closes the response window after RESPONSE_WINDOW_MS
flanker_closeWindow(c) ==
  LET c1 == IF ~c.task.responded
            THEN push(c, [stim |-> c.task.presented, responded |-> FALSE])
            ELSE c
  IN [c1 EXCEPT !.task = setTimer(@, "trialTimer", "t2")]

flanker_handleResponse(c) ==
  IF ~c.task.isRunning \/ c.task.isPaused \/ c.task.isStopped \/ c.task.responded
     \/ c.task.currentTrial = "null" THEN c
  ELSE push([c EXCEPT !.task.responded = TRUE],
            [stim |-> c.task.presented, responded |-> TRUE])

flanker_endTask(c) ==
  IF c.task.isStopped THEN c
  ELSE LET t1 == clearTimer(clearTimer([c.task EXCEPT !.isStopped = TRUE,
                                                      !.isRunning = FALSE,
                                                      !.message = "submitting",
                                                      !.endedBy = "timer"],
                                       "trialTimer"), "taskEndTimer")
       IN taskSubmit([c EXCEPT !.task = t1], t1.trials, <<>>)

flanker_init(c) ==
  LET c1 == flanker_showNextTrial([c EXCEPT !.task = [IdleTask EXCEPT !.type = "flanker",
                                                                     !.isRunning = TRUE]])
  IN [c1 EXCEPT !.task = setTimer(@, "taskEndTimer", "end")]

flanker_pause(c) == [c EXCEPT !.task = clearTimer([@ EXCEPT !.isPaused = TRUE], "trialTimer")]

\* a resume that leaves the trial of before the pause on screen
flanker_resume_KeepTrial(c) == [c EXCEPT !.task.isPaused = FALSE]

flanker_resume(c) == flanker_showNextTrial([c EXCEPT !.task.isPaused = FALSE])

flanker_abort(c) ==
  [c EXCEPT !.task = clearTimer(clearTimer([@ EXCEPT !.isStopped = TRUE,
                                                      !.isRunning = FALSE],
                                           "trialTimer"), "taskEndTimer")]

----------------------------------------------------------------------------
(* digit_symbol.js                                                         *)

ds_showNextTrial(c) ==
  IF ~c.task.isRunning \/ c.task.isPaused \/ c.task.isStopped THEN c
  ELSE IF c.task.presented >= MaxStim THEN [c EXCEPT !.ok = FALSE]
  ELSE [c EXCEPT !.task.presented = @ + 1]

\* the click listener of an option button
ds_optionClick(c) ==
  IF ~c.task.isRunning \/ c.task.isPaused \/ c.task.isStopped THEN c
  ELSE ds_showNextTrial(push(c, [stim |-> c.task.presented, responded |-> TRUE]))

ds_endTask(c) ==
  IF c.task.isStopped THEN c
  ELSE LET t1 == clearTimer([c.task EXCEPT !.isStopped = TRUE, !.isRunning = FALSE,
                                           !.message = "submitting",
                                           !.endedBy = "timer"], "taskEndTimer")
       IN taskSubmit([c EXCEPT !.task = t1], t1.trials, <<>>)

ds_init(c) ==
  LET c1 == ds_showNextTrial([c EXCEPT !.task = [IdleTask EXCEPT !.type = "digit_symbol",
                                                                !.isRunning = TRUE]])
  IN [c1 EXCEPT !.task = setTimer(@, "taskEndTimer", "end")]

ds_pause(c) == [c EXCEPT !.task.isPaused = TRUE]

ds_resume(c) == ds_showNextTrial([c EXCEPT !.task.isPaused = FALSE])

ds_abort(c) ==
  [c EXCEPT !.task = clearTimer([@ EXCEPT !.isStopped = TRUE, !.isRunning = FALSE],
                                "taskEndTimer")]

----------------------------------------------------------------------------
(* mood.js                                                                 *)

mood_updateSubmit(t) ==
  [t EXCEPT !.submitDisabled = ~(\A s \in SCALES : t.ratings[s] # 0)]

\* a rating listener that keeps the first value chosen for a scale
mood_ratingClick_KeepFirst(c, scale, val) ==
  [c EXCEPT !.task = mood_updateSubmit([@ EXCEPT !.ratings[scale] =
                                                   IF @ = 0 THEN val ELSE @])]

\* the click listener of a rating button
mood_ratingClick(c, scale, val) ==
  [c EXCEPT !.task = mood_updateSubmit([@ EXCEPT !.ratings[scale] = val])]

\* the click listener of submitBtn
mood_submitClick(c) ==
  IF c.task.submitDisabled THEN c
  ELSE taskSubmit([c EXCEPT !.task.submitDisabled = TRUE, !.task.message = "submitting"],
                  <<c.task.ratings>>, c.task.ratings)

mood_init(c) == [c EXCEPT !.task = [IdleTask EXCEPT !.type = "mood"]]

mood_pause(c) == c

mood_resume(c) == c

mood_abort(c) == c

----------------------------------------------------------------------------
(* The interface each task registers with TaskCore.registerTask            *)

pause(c) ==
  LET c1 == [c EXCEPT !.task.lastCall = "pause",
                      !.task.pausedAt = c.task.presented + 1]
  IN CASE c.task.type = "pvt"          -> pvt_pause(c1)
       [] c.task.type = "sart"         -> sart_pause(c1)
       [] c.task.type = "flanker"      -> flanker_pause(c1)
       [] c.task.type = "digit_symbol" -> ds_pause(c1)
       [] OTHER                        -> mood_pause(c1)

resume(c) ==
  LET c1 == [c EXCEPT !.task.lastCall = "resume"]
  IN CASE c.task.type = "pvt"          -> pvt_resume(c1)
       [] c.task.type = "sart"         -> sart_resume(c1)
       [] c.task.type = "flanker"      -> flanker_resume(c1)
       [] c.task.type = "digit_symbol" -> ds_resume(c1)
       [] OTHER                        -> mood_resume(c1)

abort(c, reason) ==
  LET c1 == [c EXCEPT !.task.abortCalled = TRUE, !.task.lastCall = reason]
  IN CASE c.task.type = "pvt"          -> pvt_abort(c1)
       [] c.task.type = "sart"         -> sart_abort(c1)
       [] c.task.type = "flanker"      -> flanker_abort(c1)
       [] c.task.type = "digit_symbol" -> ds_abort(c1)
       [] OTHER                        -> mood_abort(c1)

init(c, type) ==
  CASE type = "pvt"          -> pvt_init(c)
    [] type = "sart"         -> sart_init(c)
    [] type = "flanker"      -> flanker_init(c)
    [] type = "digit_symbol" -> ds_init(c)
    [] OTHER                 -> mood_init(c)

----------------------------------------------------------------------------
(* The content of the trial records.  Times are TaskCore.now() values,     *)
(* performance.now() differences with a fraction: the model counts them in *)
(* half-milliseconds.  A value that can be null is <<>> or <<value>>.      *)

\* Math.floor of a time given in half-milliseconds
Math_round_Floor(t) == t \div 2

\* Math.round of a non-negative time given in half-milliseconds
Math_round(t) == (t + 1) \div 2

\* pvt.js constants
ANTICIPATION_THRESHOLD == 100
LAPSE_THRESHOLD == 500
NO_RESPONSE_THRESHOLD == 2000

\* an anticipation test one millisecond short of the threshold
isAnticipation_Short(rtMs) == rtMs < ANTICIPATION_THRESHOLD - 1

\* recordResponse: rtMs < ANTICIPATION_THRESHOLD
isAnticipation(rtMs) == rtMs < ANTICIPATION_THRESHOLD

\* recordResponse: rtMs > LAPSE_THRESHOLD
isLapse(rtMs) == rtMs > LAPSE_THRESHOLD

\* pvt recordResponse(isUserTap) called when TaskCore.now() is responseMs: the
\* records it pushes (none or one).  onset and at keep the unrounded times the
\* record was computed from.
recordResponse(stimulusStartMs, responseMs, isUserTap) ==
  IF stimulusStartMs = <<>> THEN
    IF ~isUserTap THEN <<>>
    ELSE <<[stimulus_at_ms |-> <<>>,
            response_at_ms |-> <<Math_round(responseMs)>>,
            rt_ms |-> <<>>,
            is_anticipation |-> TRUE,
            is_lapse |-> FALSE,
            responded |-> TRUE,
            onset |-> <<>>, at |-> responseMs]>>
  ELSE
    LET rtMs == Math_round(responseMs - stimulusStartMs[1]) IN
    <<[stimulus_at_ms |-> <<Math_round(stimulusStartMs[1])>>,
       response_at_ms |-> <<Math_round(responseMs)>>,
       rt_ms |-> IF isUserTap THEN <<rtMs>> ELSE <<>>,
       is_anticipation |-> isAnticipation(rtMs),
       is_lapse |-> (isLapse(rtMs) \/ ~isUserTap),
       responded |-> isUserTap,
       onset |-> stimulusStartMs, at |-> responseMs]>>

\* sart.js constant
NOGO_DIGIT == 3

\* sart handleInteraction: the record of a tap rtMs after the digit appeared
sart_tapTrial(currentDigit, rtMs) ==
  LET isNogo == (currentDigit = NOGO_DIGIT) IN
  [digit |-> currentDigit, is_nogo |-> isNogo, responded |-> TRUE, rt_ms |-> <<rtMs>>,
   is_commission |-> isNogo, is_omission |-> FALSE]

\* a non-response record that counts every digit as an omission
sart_missTrial_AnyDigit(currentDigit) ==
  LET isNogo == (currentDigit = NOGO_DIGIT) IN
  [digit |-> currentDigit, is_nogo |-> isNogo, responded |-> FALSE, rt_ms |-> <<>>,
   is_commission |-> FALSE, is_omission |-> TRUE]

\* sart showNextTrial: the record pushed when the response window closes
\* without a tap
sart_missTrial(currentDigit) ==
  LET isNogo == (currentDigit = NOGO_DIGIT) IN
  [digit |-> currentDigit, is_nogo |-> isNogo, responded |-> FALSE, rt_ms |-> <<>>,
   is_commission |-> FALSE, is_omission |-> ~isNogo]

\* rng() < 0.5 for the draw u / 2^32
belowHalf(u) == u[1] < 32768

\* a buildTrial whose incongruent rows have the centre and the flankers swapped
buildTrial_Swapped(u1, u2) ==
  LET isCongruent == belowHalf(u1)
      direction   == IF belowHalf(u2) THEN "left" ELSE "right"
  IN [arrows |-> IF isCongruent
                 THEN (IF direction = "left" THEN <<"<", "<", "<", "<", "<">>
                                             ELSE <<">", ">", ">", ">", ">">>)
                 ELSE (IF direction = "left" THEN <<"<", "<", ">", "<", "<">>
                                             ELSE <<">", ">", "<", ">", ">">>),
      direction |-> direction, is_congruent |-> isCongruent]

\* flanker buildTrial(rng), u1 and u2 the two draws it takes
buildTrial(u1, u2) ==
  LET isCongruent == belowHalf(u1)
      direction   == IF belowHalf(u2) THEN "left" ELSE "right"
  IN [arrows |-> IF isCongruent
                 THEN (IF direction = "left" THEN <<"<", "<", "<", "<", "<">>
                                             ELSE <<">", ">", ">", ">", ">">>)
                 ELSE (IF direction = "left" THEN <<">", ">", "<", ">", ">">>
                                             ELSE <<"<", "<", ">", "<", "<">>),
      direction |-> direction, is_congruent |-> isCongruent]

\* flanker handleResponse(direction): the record pushed
flanker_responseTrial(currentTrial, direction, rtMs) ==
  [arrows |-> currentTrial.arrows, direction |-> currentTrial.direction,
   is_congruent |-> currentTrial.is_congruent, responded |-> TRUE,
   response |-> <<direction>>, correct |-> (direction = currentTrial.direction),
   rt_ms |-> <<rtMs>>]

\* flanker showNextTrial: the record pushed when the window closes without a
\* response
flanker_missTrial(currentTrial) ==
  [arrows |-> currentTrial.arrows, direction |-> currentTrial.direction,
   is_congruent |-> currentTrial.is_congruent, responded |-> FALSE,
   response |-> <<>>, correct |-> FALSE, rt_ms |-> <<>>]

NoRec == [task |-> "none", trials |-> <<>>]

\* digit_symbol.js SYMBOL_POOL (the nine shapes, by name)
SYMBOL_POOL == <<"circle", "up", "down", "diamond", "star", "square", "heart",
                 "spade", "club">>

\* the one element of a set of one element
The(S) == CHOOSE x \in S : TRUE

\* shuffle's loop body for index i (counted from 1): j = floor(rng() * i),
\* counted from 1, and the swap of a[i] and a[j]
swapStep(p, i) ==
  The({[a |-> [p.a EXCEPT ![i] = p.a[floorOf[d.u, i] + 1],
                          ![floorOf[d.u, i] + 1] = p.a[i]],
        h |-> d.h] : d \in {draw(p.h)}})

\* a shuffle that works on its argument instead of a copy
shuffle_InPlace(arr, h) ==
  LET n == Len(arr)
      st[k \in 0..(n - 1)] ==
        IF k = 0 THEN [a |-> arr, h |-> h]
        ELSE The({swapStep(p, n + 1 - k) : p \in {st[k - 1]}})
  IN The({[arr |-> r.a, a |-> r.a, h |-> r.h] : r \in {st[n - 1]}})

\* digit_symbol shuffle(arr, rng) with the generator in state h: the array
\* arr after the call, the array returned and the generator afterwards.  The
\* loop runs i from the last index down to the second.
shuffle(arr, h) ==
  LET n == Len(arr)
      st[k \in 0..(n - 1)] ==
        IF k = 0 THEN [a |-> slice(arr), h |-> h]
        ELSE The({swapStep(p, n + 1 - k) : p \in {st[k - 1]}})
  IN The({[arr |-> arr, a |-> r.a, h |-> r.h] : r \in {st[n - 1]}})

\* every digit, the target included
distractorDigits_All(targetDigit) == <<1, 2, 3, 4, 5, 6, 7, 8, 9>>

\* showNextTrial: Object.keys(symbolMap).map(Number) without the target
distractorDigits(targetDigit) ==
  LET other(d) == d # targetDigit IN SelectSeq(<<1, 2, 3, 4, 5, 6, 7, 8, 9>>, other)

\* digit_symbol showNextTrial with the generator in state h: the target, the
\* digits of the four option buttons and the generator afterwards.
\* ds_options is its part after the target digit is drawn.
ds_options(targetDigit, h) ==
  The({The({[targetDigit |-> targetDigit, options |-> options.a, h |-> options.h] :
             options \in {shuffle(<<targetDigit>> \o SubSeq(shuffled.a, 1, 3),
                                  shuffled.h)}}) :
        shuffled \in {shuffle(distractorDigits(targetDigit), h)}})

ds_trial(h) ==
  The({ds_options(floorOf[d.u, 9] + 1, d.h) : d \in {draw(h)}})

NoDs == [task |-> "none"]

\* sart.js constants
DURATION_MS == 75000
STIMULUS_MS == 250
ISI_MS == 900

\* sart buildSequence: the length of the sequence it returns
sequenceLength(durationMs) ==
  LET trialDuration == STIMULUS_MS + ISI_MS
  IN ((durationMs + trialDuration - 1) \div trialDuration) + 5

\* sart endTask() when TaskCore.now() is r.now
run_endTask(r, via) ==
  IF r.isStopped THEN r
  ELSE [r EXCEPT !.isStopped = TRUE, !.isRunning = FALSE, !.trialTimer = <<>>,
                 !.taskEndTimer = <<>>, !.endedBy = via, !.submitted = @ + 1]

\* sart showNextTrial() when TaskCore.now() is r.now; a pending timer is the
\* pair of its callback and the time it is due
run_showNextTrial(r) ==
  IF ~r.isRunning \/ r.seqIndex >= r.length THEN
    run_endTask(r, IF r.seqIndex >= r.length THEN "sequence" ELSE "guard")
  ELSE [r EXCEPT !.seqIndex = @ + 1,
                 !.currentTrialStart = r.now,
                 !.trialTimer = <<"hide", r.now + STIMULUS_MS>>]

NoRun == [task |-> "none"]

----------------------------------------------------------------------------
(* Actions                                                                 *)

\* the page is still the task page (no handler has navigated away)
Alive == location = "task_page"

Here == Ctx(task, submits, _interruptions)

\* the handler ends in c
Commit(c) == c.ok /\ task' = c.task /\ submits' = c.submits

\* TaskCore.init(sessionId, csrfToken)
TaskCoreInit ==
  /\ Alive /\ ~listenersAttached
  /\ listenersAttached' = TRUE
  /\ _sessionId' = "sid"
  /\ UNCHANGED <<_interruptions, _activeTask, online, visibility, location, task, submits>>
  /\ UNCHANGED <<prev, clock, rng, built, ds, run>>

\* XTask.init(config), ending in TaskCore.registerTask
TaskInit(type) ==
  /\ Alive /\ listenersAttached /\ task.type = "none"
  /\ Commit(init(Here, type))
  /\ _activeTask' = type
  /\ UNCHANGED <<listenersAttached, _sessionId, _interruptions, online, visibility, location>>
  /\ UNCHANGED <<prev, clock, rng, built, ds, run>>

\* the visibilitychange listener; state is the new document.visibilityState
VisibilityChange(state) ==
  /\ Alive /\ listenersAttached /\ state # visibility
  /\ Len(_interruptions) < MaxEvents
  /\ visibility' = state
  /\ LET log == logEvent(_interruptions,
                         IF state = "hidden" THEN "visibility_hidden"
                         ELSE "visibility_visible")
         c   == Ctx(task, submits, log)
     IN /\ _interruptions' = log
        /\ Commit(IF _activeTask = "null" THEN c
                  ELSE IF state = "hidden" THEN pause(c) ELSE resume(c))
  /\ UNCHANGED <<listenersAttached, _sessionId, _activeTask, online, location>>
  /\ UNCHANGED <<prev, clock, rng, built, ds, run>>

\* the pagehide and beforeunload listeners
AbortEvent(type) ==
  /\ Alive /\ listenersAttached
  /\ Len(_interruptions) < MaxEvents
  /\ LET log == logEvent(_interruptions, type)
         c   == Ctx(task, submits, log)
     IN /\ _interruptions' = log
        /\ Commit(IF _activeTask = "null" THEN c ELSE abort(c, type))
  /\ UNCHANGED <<listenersAttached, _sessionId, _activeTask, online, visibility, location>>
  /\ UNCHANGED <<prev, clock, rng, built, ds, run>>

PageHide == AbortEvent("pagehide")

BeforeUnload == AbortEvent("beforeunload")

\* the offline listener
Offline ==
  /\ Alive /\ listenersAttached /\ online
  /\ Len(_interruptions) < MaxEvents
  /\ online' = FALSE
  /\ LET log == logEvent(_interruptions, "offline")
         c   == Ctx(task, submits, log)
     IN /\ _interruptions' = log
        /\ Commit(IF _activeTask = "null" THEN c ELSE abort(c, "offline"))
  /\ UNCHANGED <<listenersAttached, _sessionId, _activeTask, visibility, location>>
  /\ UNCHANGED <<prev, clock, rng, built, ds, run>>

\* the online listener
Online ==
  /\ Alive /\ listenersAttached /\ ~online
  /\ online' = TRUE
  /\ UNCHANGED <<listenersAttached, _sessionId, _interruptions, _activeTask,
                 visibility, location, task, submits>>
  /\ UNCHANGED <<prev, clock, rng, built, ds, run>>

\* a pending timer with callback k of a task of type ty is due
TimerDue(ty, k, src) == Alive /\ task.type = ty /\ CanFire(task, k, src)

\* what the callback of the fired timer sees
TimerCtx(k, src) == Ctx(Fired(task, k, src), submits, _interruptions)

\* a participant input reaches a task of type ty
InputOn(ty) == Alive /\ task.type = ty

\* a timer callback or input handler of the task ran and left c
Ran(c) ==
  /\ Commit(c)
  /\ UNCHANGED <<listenersAttached, _sessionId, _interruptions, _activeTask, online,
                 visibility, location>>
  /\ UNCHANGED <<prev, clock, rng, built, ds, run>>

Sources == {"held", "leaked"}

PvtIsiTimer        == \E src \in Sources : TimerDue("pvt", "isi", src) /\ Ran(pvt_showStimulus(TimerCtx("isi", src)))
PvtNoResponseTimer == \E src \in Sources : TimerDue("pvt", "noResp", src) /\ Ran(pvt_noResponse(TimerCtx("noResp", src)))
PvtAnimationFrame  == \E src \in Sources : TimerDue("pvt", "anim", src) /\ Ran(pvt_animate(TimerCtx("anim", src)))
PvtTaskEndTimer    == \E src \in Sources : TimerDue("pvt", "end", src) /\ Ran(pvt_endTask(TimerCtx("end", src)))
PvtTap             == InputOn("pvt") /\ Ran(pvt_handleInteraction(Here))

sart_taskEnd(c) == sart_endTask(c, "timer")

SartStimulusTimer == \E src \in Sources : TimerDue("sart", "t1", src) /\ Ran(sart_hideStimulus(TimerCtx("t1", src)))
SartTrialTimer    == \E src \in Sources : TimerDue("sart", "t2", src) /\ Ran(sart_closeTrial(TimerCtx("t2", src)))
SartTaskEndTimer  == \E src \in Sources : TimerDue("sart", "end", src) /\ Ran(sart_taskEnd(TimerCtx("end", src)))
SartTap           == InputOn("sart") /\ Ran(sart_handleInteraction(Here))

FlankerWindowTimer  == \E src \in Sources : TimerDue("flanker", "t1", src) /\ Ran(flanker_closeWindow(TimerCtx("t1", src)))
FlankerIsiTimer     == \E src \in Sources : TimerDue("flanker", "t2", src) /\ Ran(flanker_showNextTrial(TimerCtx("t2", src)))
FlankerTaskEndTimer == \E src \in Sources : TimerDue("flanker", "end", src) /\ Ran(flanker_endTask(TimerCtx("end", src)))
FlankerResponse     == InputOn("flanker") /\ Ran(flanker_handleResponse(Here))

DsTaskEndTimer == \E src \in Sources : TimerDue("digit_symbol", "end", src) /\ Ran(ds_endTask(TimerCtx("end", src)))
DsOptionClick  == InputOn("digit_symbol") /\ Ran(ds_optionClick(Here))

MoodRatingClick ==
  \E scale \in SCALES, val \in RatingVals :
    /\ Alive /\ task.type = "mood"
    /\ Commit(mood_ratingClick(Here, scale, val))
    /\ UNCHANGED <<listenersAttached, _sessionId, _interruptions, _activeTask, online,
                   visibility, location, prev, clock, rng, built, ds, run>>

MoodSubmitClick == InputOn("mood") /\ Ran(mood_submitClick(Here))

\* the buttons of a scale the participant presses: the lowest and the highest
\* of the five
PressedVals == {1, 5}

\* the participant presses button val of a scale; built.selected keeps what
\* the participant selected last on each scale
MoodPress(scale, val) ==
  /\ Alive /\ task.type = "mood"
  /\ Commit(mood_ratingClick(Here, scale, val))
  /\ built' = [task |-> "mood",
               selected |-> [(IF built.task = "mood" THEN built.selected ELSE NoRatings)
                               EXCEPT ![scale] = val]]
  /\ UNCHANGED <<listenersAttached, _sessionId, _interruptions, _activeTask, online,
                 visibility, location, prev, clock, rng, ds, run>>

\* the payloads handed to TaskCore.submit from outside the task modules
DirectPayloads == {Fields} \cup {Fields \ {f} : f \in Fields} \cup {{}}

\* a payload object with the properties named in fields; sid is the value of
\* its session_id
payloadOf(fields, sid) == [f \in fields |-> IF f = "session_id" THEN sid ELSE "v"]

\* TaskCore.submit(payload) called from outside the task modules, with a
\* payload of the properties named in fields
DirectSubmit(fields) ==
  /\ Alive /\ listenersAttached
  /\ Len(submits) < MaxSubmits
  /\ submits' = Append(submits, NewSubmit("direct", payloadOf(fields, "sid"), <<>>,
                                          _interruptions))
  /\ UNCHANGED <<listenersAttached, _sessionId, _interruptions, _activeTask, online,
                 visibility, location, task>>
  /\ UNCHANGED <<prev, clock, rng, built, ds, run>>

\* TaskCore.submit(payload) with a complete payload whose session_id is not
\* the id TaskCore.init was given
ForeignSubmit ==
  /\ Alive /\ listenersAttached
  /\ Len(submits) < MaxSubmits
  /\ submits' = Append(submits, NewSubmit("direct", payloadOf(Fields, "other"), <<>>,
                                          _interruptions))
  /\ UNCHANGED <<listenersAttached, _sessionId, _interruptions, _activeTask, online,
                 visibility, location, task>>
  /\ UNCHANGED <<prev, clock, rng, built, ds, run>>

\* the endpoint answers request i with status st (0: the fetch fails); the
\* promise settles and the caller's reaction runs
FetchResponse(i, st, hasNextTask) ==
  /\ Alive
  /\ i \in 1..Len(submits) /\ submits[i].fetched /\ ~submits[i].answered
  /\ LET e == Settle(submits[i], st) IN
       /\ submits' = [submits EXCEPT ![i] = e]
       /\ IF e.by = "task"
          THEN IF e.promise = "rejected"
               THEN task' = onRejected(task) /\ location' = location
               ELSE task' = task
                    /\ location' = onResolved(st = 201 /\ hasNextTask)
          ELSE task' = task /\ location' = location
  /\ UNCHANGED <<listenersAttached, _sessionId, _interruptions, _activeTask, online,
                 visibility>>
  /\ UNCHANGED <<prev, clock, rng, built, ds, run>>

Init ==
  /\ listenersAttached = FALSE
  /\ _sessionId = "null"
  /\ _interruptions = <<>>
  /\ _activeTask = "null"
  /\ online = TRUE
  /\ visibility \in {"visible", "hidden"}
  /\ location = "task_page"
  /\ task = IdleTask
  /\ submits = <<>>
  /\ prev = IdleTask
  /\ clock = [elapsed |-> 0, paused |-> 0]
  /\ rng = NoRng
  /\ built = NoRec
  /\ ds = NoDs
  /\ run = NoRun

Next ==
  \/ TaskCoreInit
  \/ \E type \in TaskTypes : TaskInit(type)
  \/ \E state \in {"visible", "hidden"} : VisibilityChange(state)
  \/ PageHide
  \/ BeforeUnload
  \/ Offline
  \/ Online
  \/ PvtIsiTimer
  \/ PvtNoResponseTimer
  \/ PvtAnimationFrame
  \/ PvtTaskEndTimer
  \/ PvtTap
  \/ SartStimulusTimer
  \/ SartTrialTimer
  \/ SartTaskEndTimer
  \/ SartTap
  \/ FlankerWindowTimer
  \/ FlankerIsiTimer
  \/ FlankerTaskEndTimer
  \/ FlankerResponse
  \/ DsTaskEndTimer
  \/ DsOptionClick
  \/ MoodRatingClick
  \/ MoodSubmitClick

\* A page running one task.  No payload of a task module passes submit's
\* validation, so no request of a task is ever awaiting its answer here.
Spec == Init /\ [][Next]_vars

\* TaskCore.submit on its own: calls with any payload, online and offline, and
\* the answers of the endpoint.
NextSubmit ==
  \/ TaskCoreInit
  \/ Offline
  \/ Online
  \/ \E p \in DirectPayloads : DirectSubmit(p)
  \/ \E i \in 1..MaxSubmits, st \in Statuses, n \in BOOLEAN : FetchResponse(i, st, n)

SpecSubmit == Init /\ [][NextSubmit]_vars

\* sart buildSequence: rng() < 0.111, as a test on the 32 bits of the draw
isNogoDraw(u) == u[1] < 7274 \/ (u[1] = 7274 /\ u[2] < 32506)

\* sart buildSequence: digits.filter(d !== NOGO_DIGIT)
goDigits == <<1, 2, 4, 5, 6, 7, 8, 9>>

\* sart buildSequence(rng, durationMs) for a sequence of count digits: the
\* sequence and the generator after it
buildSequence(h, count) ==
  LET st[k \in 0..count] ==
        IF k = 0 THEN [seq |-> <<>>, h |-> h]
        ELSE The({The({IF isNogoDraw(d.u)
                       THEN [seq |-> Append(p.seq, NOGO_DIGIT), h |-> d.h]
                       ELSE The({[seq |-> Append(p.seq, goDigits[floorOf[e.u, 8] + 1]),
                                  h |-> e.h] : e \in {draw(d.h)}})
                         : d \in {draw(p.h)}}) : p \in {st[k - 1]}})
  IN st[count]

\* A run of a timed task as far as its stimuli go: the generator h, the
\* stimuli presented so far (shown), and what the participant and the page did.

\* pvt startISI(): the next interval
gen_startISI(r) ==
  IF r.isPaused THEN r
  ELSE The({[r EXCEPT !.h = d.h, !.shown = Append(@, randomISI(d.u))] : d \in {draw(r.h)}})

\* flanker showNextTrial(): the next row of arrows
gen_flankerTrial(r) ==
  IF r.isPaused THEN r
  ELSE The({The({[r EXCEPT !.h = e.h, !.responded = FALSE,
                           !.shown = Append(@, buildTrial(d.u, e.u))]
                   : e \in {draw(d.h)}}) : d \in {draw(r.h)}})

\* sart showNextTrial(): the next digit of the sequence
gen_sartTrial(r) ==
  IF r.isPaused \/ r.seqIndex >= Len(r.seq) THEN r
  ELSE [r EXCEPT !.seqIndex = @ + 1, !.responded = FALSE,
                 !.shown = Append(@, r.seq[r.seqIndex + 1])]

\* digit_symbol showNextTrial(): the next target digit and its options
gen_dsTrial(r) ==
  IF r.isPaused THEN r
  ELSE The({[r EXCEPT !.h = t.h, !.shown = Append(@, <<t.targetDigit, t.options>>)]
              : t \in {ds_trial(r.h)}})

\* the step of a task that presents its next stimulus
gen_present(r) ==
  CASE r.task = "pvt"     -> gen_startISI(r)
    [] r.task = "flanker" -> gen_flankerTrial(r)
    [] r.task = "sart"    -> gen_sartTrial(r)
    [] OTHER              -> gen_dsTrial(r)

\* a response handler that calls rng()
gen_respond_Drawing(r) ==
  IF r.isPaused THEN r
  ELSE IF r.task \in {"pvt", "digit_symbol"} THEN gen_present(r)
  ELSE The({[r EXCEPT !.responded = TRUE, !.h = d.h] : d \in {draw(r.h)}})

\* the participant responds: pvt recordResponse ends in startISI() and the
\* digit_symbol click listener in showNextTrial(); the sart and flanker
\* handlers record the response and leave the pacing to the timers
gen_respond(r) ==
  IF r.isPaused THEN r
  ELSE IF r.task \in {"pvt", "digit_symbol"} THEN gen_present(r)
  ELSE [r EXCEPT !.responded = TRUE]

\* two runs of one task are initialised with the same seed
RunsInit(type, seed) ==
  /\ rng.a.task = "none"
  /\ LET h0 == newRng(type, seed, Int32(0)).h
         r0 == [task |-> type, h |-> h0, isPaused |-> FALSE, responded |-> FALSE,
                seq |-> <<>>, seqIndex |-> 0, shown |-> <<>>]
         r1 == CASE type = "sart" ->
                      The({[r0 EXCEPT !.seq = b.seq, !.h = b.h]
                             : b \in {buildSequence(h0, sequenceLength(STIMULUS_MS + ISI_MS))}})
                 [] type = "digit_symbol" ->
                      The({[r0 EXCEPT !.h = sh.h] : sh \in {shuffle(SYMBOL_POOL, h0)}})
                 [] OTHER -> r0
     IN \E r \in {gen_present(r1)} : rng' = [seed |-> seed, a |-> r, b |-> r]
  /\ UNCHANGED <<listenersAttached, _sessionId, _interruptions, _activeTask, online,
                 visibility, location, task, submits, prev, clock, built, ds, run>>

\* the runs
RunIds == {"a", "b"}

\* run x is left as r by a step; nothing else changes
RunStep(x, r) ==
  /\ rng' = [rng EXCEPT ![x] = r]
  /\ UNCHANGED <<listenersAttached, _sessionId, _interruptions, _activeTask, online,
                 visibility, location, task, submits, prev, clock, built, ds, run>>

\* a run that can present another stimulus within the bounds of the model
Presenting(x) == rng.a.task \in TimedTypes /\ Len(rng[x].shown) < MaxShown

\* the pacing timer of run x leads to its next stimulus (pvt: the
\* no-response timer; sart, flanker: the timer that closes the trial)
RunTimerFires(x) ==
  /\ Presenting(x) /\ rng[x].task # "digit_symbol" /\ ~rng[x].isPaused
  /\ RunStep(x, gen_present(rng[x]))

\* the participant of run x responds
RunResponds(x) ==
  /\ Presenting(x) /\ ~rng[x].isPaused /\ ~rng[x].responded
  /\ RunStep(x, gen_respond(rng[x]))

\* pause() in run x
RunPause(x) ==
  /\ Presenting(x) /\ ~rng[x].isPaused
  /\ RunStep(x, [rng[x] EXCEPT !.isPaused = TRUE])

\* resume() in run x
RunResume(x) ==
  /\ Presenting(x)
  /\ RunStep(x, gen_present([rng[x] EXCEPT !.isPaused = FALSE]))

NextRuns ==
  \/ \E type \in TimedTypes, seed \in Seeds : RunsInit(type, seed)
  \/ \E x \in RunIds : RunTimerFires(x)
  \/ \E x \in RunIds : RunResponds(x)
  \/ \E x \in RunIds : RunPause(x)
  \/ \E x \in RunIds : RunResume(x)

\* Two runs of a timed task with one seed, each with its own responses,
\* pauses and resumes.
SpecRuns == Init /\ [][NextRuns]_vars

NextMood ==
  \/ TaskCoreInit
  \/ TaskInit("mood")
  \/ \E scale \in SCALES, val \in PressedVals : MoodPress(scale, val)
  \/ MoodSubmitClick

\* The mood form: presses on the rating buttons and on the submit button.
SpecMood == Init /\ [][NextMood]_vars

NextBody ==
  \/ TaskCoreInit
  \/ \E state \in {"visible", "hidden"} : VisibilityChange(state)
  \/ Offline
  \/ Online
  \/ \E p \in DirectPayloads : DirectSubmit(p)
  \/ ForeignSubmit

\* The request bodies TaskCore.submit builds, for payloads with the session's
\* own id and with another one, with and without logged events.
SpecBody == Init /\ [][NextBody]_vars

\* a first task module is initialised with session seed seed
FirstInit(type, seed) ==
  /\ rng.a.task = "none"
  /\ rng' = [rng EXCEPT !.seed = seed, !.a = newRng(type, seed, Int32(0))]
  /\ UNCHANGED <<listenersAttached, _sessionId, _interruptions, _activeTask, online,
                 visibility, location, task, submits, prev, clock, built, ds, run>>

\* a second task module (of the same type or another) is initialised with the
\* same session seed
SecondInit(type) ==
  /\ rng.a.task # "none" /\ rng.b.task = "none"
  /\ rng' = [rng EXCEPT !.b = newRng(type, rng.seed, rng.a.h)]
  /\ UNCHANGED <<listenersAttached, _sessionId, _interruptions, _activeTask, online,
                 visibility, location, task, submits, prev, clock, built, ds, run>>

\* the first task calls rng()
FirstDraw ==
  /\ rng.a.task # "none" /\ Len(rng.a.out) < MaxDraws
  /\ rng' = [rng EXCEPT !.a = nextDraw(rng.a)]
  /\ UNCHANGED <<listenersAttached, _sessionId, _interruptions, _activeTask, online,
                 visibility, location, task, submits, prev, clock, built, ds, run>>

\* the second task calls rng()
SecondDraw ==
  /\ rng.b.task # "none" /\ Len(rng.b.out) < MaxDraws
  /\ rng' = [rng EXCEPT !.b = nextDraw(rng.b)]
  /\ UNCHANGED <<listenersAttached, _sessionId, _interruptions, _activeTask, online,
                 visibility, location, task, submits, prev, clock, built, ds, run>>

NextRng ==
  \/ \E type \in RngTasks, seed \in Seeds : FirstInit(type, seed)
  \/ \E type \in RngTasks : SecondInit(type)
  \/ FirstDraw
  \/ SecondDraw

\* time passes on the page of a timed task: one tick, which is paused time
\* when it passes between pause() and resume()
Tick ==
  /\ Alive /\ task.type \in TimedTypes /\ clock.elapsed < MaxTicks
  /\ clock' = [elapsed |-> clock.elapsed + 1,
               paused  |-> clock.paused + (IF task.isPaused THEN 1 ELSE 0)]
  /\ UNCHANGED <<listenersAttached, _sessionId, _interruptions, _activeTask, online,
                 visibility, location, task, submits, prev, rng, built, ds, run>>

\* setTimeout(endTask, durationMs), set in init() at tick 0, is due
EndTimerDue == clock.elapsed >= DurationTicks

TimedPvtTaskEnd     == EndTimerDue /\ PvtTaskEndTimer
TimedSartTaskEnd    == EndTimerDue /\ SartTaskEndTimer
TimedFlankerTaskEnd == EndTimerDue /\ FlankerTaskEndTimer
TimedDsTaskEnd      == EndTimerDue /\ DsTaskEndTimer

NextTimed ==
  \/ TaskCoreInit
  \/ \E type \in TimedTypes : TaskInit(type)
  \/ \E state \in {"visible", "hidden"} : VisibilityChange(state)
  \/ Tick
  \/ TimedPvtTaskEnd
  \/ TimedSartTaskEnd
  \/ TimedFlankerTaskEnd
  \/ TimedDsTaskEnd

\* A timed task against the clock: the passage of time, pause() and resume()
\* and the task-end timer, which fires no earlier than durationMs after init().
SpecTimed == Init /\ [][NextTimed]_vars

\* the callback a pending timer of kind k runs in a task of c's type
timerCallback(c, k) ==
  CASE c.task.type = "pvt" /\ k = "isi"        -> pvt_showStimulus(c)
    [] c.task.type = "pvt" /\ k = "noResp"     -> pvt_noResponse(c)
    [] c.task.type = "pvt" /\ k = "anim"       -> pvt_animate(c)
    [] c.task.type = "pvt" /\ k = "end"        -> pvt_endTask(c)
    [] c.task.type = "sart" /\ k = "t1"        -> sart_hideStimulus(c)
    [] c.task.type = "sart" /\ k = "t2"        -> sart_closeTrial(c)
    [] c.task.type = "sart" /\ k = "end"       -> sart_taskEnd(c)
    [] c.task.type = "flanker" /\ k = "t1"     -> flanker_closeWindow(c)
    [] c.task.type = "flanker" /\ k = "t2"     -> flanker_showNextTrial(c)
    [] c.task.type = "flanker" /\ k = "end"    -> flanker_endTask(c)
    [] c.task.type = "digit_symbol" /\ k = "end" -> ds_endTask(c)
    [] OTHER                                   -> c

\* a second task module is initialised on the page: its init() ends in
\* TaskCore.registerTask, which replaces _activeTask and nothing else.  The
\* closure of the task registered before lives on as prev.
Register(type) ==
  /\ Alive /\ listenersAttached /\ task.type # "none" /\ prev.type = "none"
  /\ prev' = task
  /\ Commit(init(Here, type))
  /\ _activeTask' = type
  /\ UNCHANGED <<listenersAttached, _sessionId, _interruptions, online, visibility,
                 location, clock, rng, built, ds, run>>

\* a pending timer of the superseded task fires and runs its callback
SupersededTimerFires ==
  \E k \in Kinds, src \in Sources :
    /\ Alive /\ prev.type # "none" /\ CanFire(prev, k, src)
    /\ LET c == timerCallback(Ctx(Fired(prev, k, src), submits, _interruptions), k)
       IN c.ok /\ prev' = c.task /\ submits' = c.submits
    /\ UNCHANGED <<listenersAttached, _sessionId, _interruptions, _activeTask, online,
                   visibility, location, task, clock, rng, built, ds, run>>

NextRegister ==
  \/ TaskCoreInit
  \/ \E type \in TaskTypes : TaskInit(type)
  \/ \E type \in TaskTypes : Register(type)
  \/ \E state \in {"visible", "hidden"} : VisibilityChange(state)
  \/ PageHide
  \/ BeforeUnload
  \/ Offline
  \/ Online
  \/ SupersededTimerFires

\* A page on which a second task is registered while the first one lives:
\* the lifecycle events and the timers of the superseded task.
SpecRegister == Init /\ [][NextRegister]_vars

\* The generators of two task modules initialised with one session seed.
SpecRng == Init /\ [][NextRng]_vars

\* the onsets of the model, in half-milliseconds: 1199.5, 1200, 1200.5 and
\* 2000 ms, and the waits a tap can fall into
Onsets == {2399, 2400, 2401, 4000}

\* the latencies of the model, in half-milliseconds: around 0, 100, 300, 500
\* and 2000 ms
Latencies == {0, 1, 198, 199, 200, 201, 599, 600, 601, 998, 999, 1000, 1001, 1002,
              3998, 3999}

\* PvtTask.init: no stimulus yet, no trial
PvtStart ==
  /\ built.task = "none"
  /\ built' = [task |-> "pvt", stimulusStartMs |-> <<>>, trials |-> <<>>]
  /\ UNCHANGED <<pageVars, ds, run>>

\* showStimulus runs when TaskCore.now() is s
PvtOnset(s) ==
  /\ built.task = "pvt" /\ built.stimulusStartMs = <<>>
  /\ Len(built.trials) < MaxPvtRecords
  /\ built' = [built EXCEPT !.stimulusStartMs = <<s>>]
  /\ UNCHANGED <<pageVars, ds, run>>

\* handleInteraction, d after the onset of the visible stimulus
PvtTapOnStimulus(d) ==
  /\ built.task = "pvt" /\ built.stimulusStartMs # <<>>
  /\ built' = [built EXCEPT
               !.trials = @ \o recordResponse(built.stimulusStartMs,
                                              built.stimulusStartMs[1] + d, TRUE),
               !.stimulusStartMs = <<>>]
  /\ UNCHANGED <<pageVars, ds, run>>

\* handleInteraction during the inter-stimulus wait, at time r
PvtTapInWait(r) ==
  /\ built.task = "pvt" /\ built.stimulusStartMs = <<>>
  /\ Len(built.trials) < MaxPvtRecords
  /\ built' = [built EXCEPT !.trials = @ \o recordResponse(<<>>, r, TRUE)]
  /\ UNCHANGED <<pageVars, ds, run>>

\* noResponseTimer fires, late behind NO_RESPONSE_THRESHOLD after the onset
PvtNoResponse(late) ==
  /\ built.task = "pvt" /\ built.stimulusStartMs # <<>>
  /\ built' = [built EXCEPT
               !.trials = @ \o recordResponse(built.stimulusStartMs,
                                              built.stimulusStartMs[1]
                                                + (2 * NO_RESPONSE_THRESHOLD) + late,
                                              FALSE),
               !.stimulusStartMs = <<>>]
  /\ UNCHANGED <<pageVars, ds, run>>

NextPvtTrials ==
  \/ PvtStart
  \/ \E s \in Onsets : PvtOnset(s)
  \/ \E d \in Latencies : PvtTapOnStimulus(d)
  \/ \E r \in Onsets : PvtTapInWait(r)
  \/ \E late \in {0, 1, 9} : PvtNoResponse(late)

\* The records of the pvt task: onsets, taps and missed stimuli at times with
\* a fraction of a millisecond.
SpecPvtTrials == Init /\ [][NextPvtTrials]_vars

\* SartTask.init: no digit yet, no trial
SartStart ==
  /\ built.task = "none"
  /\ built' = [task |-> "sart", currentDigit |-> <<>>, responded |-> FALSE, trials |-> <<>>]
  /\ UNCHANGED <<pageVars, ds, run>>

\* showNextTrial: the next digit of the sequence is d
SartShow(d) ==
  /\ built.task = "sart" /\ built.currentDigit = <<>>
  /\ Len(built.trials) < MaxSartRecords
  /\ built' = [built EXCEPT !.currentDigit = <<d>>, !.responded = FALSE]
  /\ UNCHANGED <<pageVars, ds, run>>

\* handleInteraction, rt half-milliseconds after the digit appeared
SartTapOnDigit(rt) ==
  /\ built.task = "sart" /\ built.currentDigit # <<>> /\ ~built.responded
  /\ built' = [built EXCEPT
                 !.responded = TRUE,
                 !.trials = Append(@, sart_tapTrial(built.currentDigit[1], Math_round(rt)))]
  /\ UNCHANGED <<pageVars, ds, run>>

\* the callback that closes the response window of the digit
SartWindowCloses ==
  /\ built.task = "sart" /\ built.currentDigit # <<>>
  /\ built' = [built EXCEPT
                 !.currentDigit = <<>>,
                 !.trials = IF built.responded THEN @
                            ELSE Append(@, sart_missTrial(built.currentDigit[1]))]
  /\ UNCHANGED <<pageVars, ds, run>>

NextSartTrials ==
  \/ SartStart
  \/ \E d \in 1..9 : SartShow(d)
  \/ \E rt \in {601} : SartTapOnDigit(rt)
  \/ SartWindowCloses

\* The records of the sart task: digits, taps and closed response windows.
SpecSartTrials == Init /\ [][NextSartTrials]_vars

\* draws on both sides of 0.5: 0, 0.5 - 2^-32, 0.5 and 1 - 2^-32
HalfDraws == {<<0, 0>>, <<32767, 65535>>, <<32768, 0>>, <<65535, 65535>>}

\* FlankerTask.init: no trial yet
FlankerStart ==
  /\ built.task = "none"
  /\ built' = [task |-> "flanker", currentTrial |-> <<>>, responded |-> FALSE,
               trials |-> <<>>]
  /\ UNCHANGED <<pageVars, ds, run>>

\* showNextTrial, the generator giving u1 and then u2
FlankerShow(u1, u2) ==
  /\ built.task = "flanker"
  /\ Len(built.trials) < MaxFlankerRecords
  /\ built' = [built EXCEPT !.currentTrial = <<buildTrial(u1, u2)>>, !.responded = FALSE]
  /\ UNCHANGED <<pageVars, ds, run>>

\* handleResponse(direction), rt half-milliseconds after the row appeared
FlankerPress(direction, rt) ==
  /\ built.task = "flanker" /\ built.currentTrial # <<>> /\ ~built.responded
  /\ Len(built.trials) < MaxFlankerRecords
  /\ built' = [built EXCEPT
                 !.responded = TRUE,
                 !.trials = Append(@, flanker_responseTrial(built.currentTrial[1],
                                                            direction, Math_round(rt)))]
  /\ UNCHANGED <<pageVars, ds, run>>

\* the callback that closes the response window of the row
FlankerWindowCloses ==
  /\ built.task = "flanker" /\ built.currentTrial # <<>> /\ ~built.responded
  /\ Len(built.trials) < MaxFlankerRecords
  /\ built' = [built EXCEPT
                 !.trials = Append(@, flanker_missTrial(built.currentTrial[1]))]
  /\ UNCHANGED <<pageVars, ds, run>>

NextFlankerTrials ==
  \/ FlankerStart
  \/ \E u1, u2 \in HalfDraws : FlankerShow(u1, u2)
  \/ \E direction \in {"left", "right"}, rt \in {601} : FlankerPress(direction, rt)
  \/ FlankerWindowCloses

\* The rows and records of the flanker task: trials built from draws,
\* responses and closed response windows.
SpecFlankerTrials == Init /\ [][NextFlankerTrials]_vars

\* the session seeds of the digit-symbol model: strings of a and b
DsSeeds == UNION {[1..n -> {97, 98}] : n \in 0..MaxSeedLen}

\* DigitSymbolTask.init(config) with config.seed = seed, up to its first
\* showNextTrial()
DsInit(seed) ==
  /\ ds.task = "none"
  /\ \E sh \in {shuffle(SYMBOL_POOL, newRng("digit_symbol", seed, Int32(0)).h)} :
       \E t \in {ds_trial(sh.h)} :
         ds' = [task |-> "digit_symbol", pool |-> sh.arr, symbolMap |-> sh.a,
                targetDigit |-> t.targetDigit, options |-> t.options, h |-> t.h,
                shown |-> 1, isPaused |-> FALSE, isStopped |-> FALSE,
                recorded |-> 0, last |-> <<>>]
  /\ UNCHANGED <<pageVars, built, run>>

\* digit_symbol showNextTrial(): the next trial is drawn and shown unless the
\* runner is paused or stopped
trial_showNextTrial(d) ==
  IF d.isPaused \/ d.isStopped THEN d
  ELSE The({[d EXCEPT !.targetDigit = t.targetDigit, !.options = t.options,
                      !.h = t.h, !.shown = @ + 1] : t \in {ds_trial(d.h)}})

\* resume() after pause()
DsNextTrial ==
  /\ ds.task = "digit_symbol" /\ ds.shown < MaxDsTrials
  /\ ds.isPaused
  /\ ds' = trial_showNextTrial([ds EXCEPT !.isPaused = FALSE])
  /\ UNCHANGED <<pageVars, built, run>>

\* a click listener that does not look at isPaused
ds_click_WhilePaused(d, optDigit, shown) ==
  IF d.isStopped THEN d
  ELSE [shown EXCEPT !.recorded = @ + 1,
                     !.last = <<[digit |-> d.targetDigit,
                                 target_symbol |-> d.symbolMap[d.targetDigit],
                                 selected_symbol |-> d.symbolMap[optDigit],
                                 correct |-> (optDigit = d.targetDigit),
                                 responded |-> TRUE]>>]

\* the click listener of the button of optDigit: the record it pushes
\* (recorded counts the records, last is the newest), then showNextTrial(),
\* which leaves the trial state shown
ds_click(d, optDigit, shown) ==
  IF d.isPaused \/ d.isStopped THEN d
  ELSE [shown EXCEPT !.recorded = @ + 1,
                     !.last = <<[digit |-> d.targetDigit,
                                 target_symbol |-> d.symbolMap[d.targetDigit],
                                 selected_symbol |-> d.symbolMap[optDigit],
                                 correct |-> (optDigit = d.targetDigit),
                                 responded |-> TRUE]>>]

\* the participant clicks one of the four option buttons
DsClick ==
  /\ ds.task = "digit_symbol" /\ ds.shown < MaxDsTrials
  /\ \E shown \in {trial_showNextTrial(ds)} :
       \E i \in 1..4 : ds' = ds_click(ds, ds.options[i], shown)
  /\ UNCHANGED <<pageVars, built, run>>

\* pause()
DsPause ==
  /\ ds.task = "digit_symbol" /\ ~ds.isPaused
  /\ ds' = [ds EXCEPT !.isPaused = TRUE]
  /\ UNCHANGED <<pageVars, built, run>>

\* abort(reason)
DsAbort ==
  /\ ds.task = "digit_symbol" /\ ~ds.isStopped
  /\ ds' = [ds EXCEPT !.isStopped = TRUE]
  /\ UNCHANGED <<pageVars, built, run>>

NextDs ==
  \/ \E seed \in DsSeeds : DsInit(seed)
  \/ DsNextTrial
  \/ DsClick
  \/ DsPause
  \/ DsAbort

\* The symbol key and the trials of the digit-symbol task, for a set of
\* session seeds.
SpecDs == Init /\ [][NextDs]_vars

\* the values of config.durationMs in the model; 0 stands for a config
\* without durationMs
Durations == {0, 1150, 10000, 30000}

\* SartTask.init(config)
SartRunInit(d) ==
  /\ run.task = "none"
  /\ LET durationMs == IF d = 0 THEN DURATION_MS ELSE d
         r == run_showNextTrial(
                [task |-> "sart", durationMs |-> durationMs, now |-> 0,
                 length |-> sequenceLength(durationMs), seqIndex |-> 0,
                 isRunning |-> TRUE, isStopped |-> FALSE, currentTrialStart |-> 0,
                 trialTimer |-> <<>>, taskEndTimer |-> <<>>,
                 endedBy |-> "none", submitted |-> 0])
     IN run' = [r EXCEPT !.taskEndTimer = <<"end", durationMs>>]
  /\ UNCHANGED <<pageVars, built, ds>>

\* no pending timer of the run is due before time t
NoneDueBefore(t) ==
  /\ run.trialTimer # <<>> => run.trialTimer[2] >= t
  /\ run.taskEndTimer # <<>> => run.taskEndTimer[2] >= t

\* the timer that hides the digit fires when it is due
SartRunHide ==
  /\ run.task = "sart" /\ run.trialTimer # <<>> /\ run.trialTimer[1] = "hide"
  /\ NoneDueBefore(run.trialTimer[2])
  /\ run' = [run EXCEPT !.now = run.trialTimer[2],
                        !.trialTimer = <<"close", run.trialTimer[2] + (ISI_MS - STIMULUS_MS)>>]
  /\ UNCHANGED <<pageVars, built, ds>>

\* the timer that closes the response window fires when it is due
SartRunClose ==
  /\ run.task = "sart" /\ run.trialTimer # <<>> /\ run.trialTimer[1] = "close"
  /\ NoneDueBefore(run.trialTimer[2])
  /\ run' = run_showNextTrial([run EXCEPT !.now = run.trialTimer[2], !.trialTimer = <<>>])
  /\ UNCHANGED <<pageVars, built, ds>>

\* taskEndTimer fires when it is due
SartRunEnd ==
  /\ run.task = "sart" /\ run.taskEndTimer # <<>>
  /\ NoneDueBefore(run.taskEndTimer[2])
  /\ run' = run_endTask([run EXCEPT !.now = run.taskEndTimer[2], !.taskEndTimer = <<>>],
                        "timer")
  /\ UNCHANGED <<pageVars, built, ds>>

NextSartRun ==
  \/ \E d \in Durations : SartRunInit(d)
  \/ SartRunHide
  \/ SartRunClose
  \/ SartRunEnd

\* A SART run that is never paused or aborted, against the clock: every
\* timer fires at the time it is due.
SpecSartRun == Init /\ [][NextSartRun]_vars

----------------------------------------------------------------------------
(* Properties                                                              *)

Calls == 1..Len(submits)

\* a step in which TaskCore.submit is called
SubmitCalled == Len(submits') = Len(submits) + 1

\* a step in which a lifecycle listener calls abort(reason) on a timed task
AbortCalledNow ==
  /\ _activeTask \in TimedTypes
  /\ Len(_interruptions') = Len(_interruptions) + 1
  /\ _interruptions'[Len(_interruptions')] \in {"pagehide", "beforeunload", "offline"}

\* C1: a task that ends normally while the browser is online hands submit a
\* payload that passes the mandatory-field validation, so the request is
\* issued.
C1_NormalEndIssuesRequest ==
  \A i \in Calls : (submits[i].by = "task" /\ submits[i].onLine) => submits[i].fetched

\* C2: every transition of a timed runner into aborted or completed makes
\* exactly one TaskCore.submit call in that step, carrying the trial records
\* accumulated so far and, in its request body, the interruption log.
C2_TerminalTransitionSubmitsOnce ==
  [][(task.type \in TimedTypes /\ ~task.isStopped /\ task'.isStopped)
       => /\ SubmitCalled
          /\ submits'[Len(submits')].trials = task'.trials
          /\ (submits'[Len(submits')].fetched
                => submits'[Len(submits')].interruptions = _interruptions')]_vars

\* C3: a submit call whose payload lacks at least one of the nine mandatory
\* fields is rejected and issues no request.
C3_MissingFieldRejectsWithoutRequest ==
  \A i \in Calls :
    (Fields \ submits[i].payload # {})
      => (~submits[i].fetched /\ ~submits[i].answered /\ submits[i].promise = "rejected")

\* a call with a payload that lacks only the last mandatory field, made online
C3_Witness ==
  \E i \in Calls : /\ submits[i].payload = Fields \ {"summary"}
                   /\ submits[i].onLine
                   /\ submits[i].promise = "rejected"

\* C4: a submit call made while navigator.onLine is false is rejected at once
\* and issues no request, whatever the payload.
C4_OfflineRejectsWithoutRequest ==
  \A i \in Calls :
    ~submits[i].onLine
      => (~submits[i].fetched /\ ~submits[i].answered /\ submits[i].promise = "rejected")

\* a call with a complete payload made while offline
C4_Witness ==
  \E i \in Calls : /\ submits[i].payload = Fields
                   /\ ~submits[i].onLine
                   /\ submits[i].error = "offline"

\* C5: when the endpoint answers 422, 403 or 409, the promise submit returned
\* is rejected.
C5_RejectionStatusRejectsPromise ==
  \A i \in Calls :
    (submits[i].answered /\ submits[i].status \in {422, 403, 409})
      => submits[i].promise = "rejected"

C8_CompletesOnlyAtNaturalEnd ==
  [][/\ task'.endedBy \in {"none", "timer", "sequence"}
     /\ (task.abortCalled /\ task.type \in TimedTypes)
          => (~SubmitCalled /\ task'.endedBy = task.endedBy)]_vars

\* C9: once a timed runner is terminal its trial list never changes.
C9_TrialsFrozenOnceTerminal ==
  [][(task.type \in TimedTypes /\ task.isStopped) => task'.trials = task.trials]_vars

\* C10: right after abort(reason) is called on a timed runner none of its
\* timers is pending.
C10_NoTimerPendingAfterAbort ==
  [][AbortCalledNow => PendingTimers(task') = 0]_vars

\* C12: while a timed runner is paused and not terminal, no step other than a
\* lifecycle event (those are the steps that log an interruption) shows a
\* stimulus, records a trial, ends the runner or calls TaskCore.submit: none
\* of its timer callbacks acts between pause() and the next resume().
C12_NothingHappensWhilePaused ==
  [][(/\ task.type \in TimedTypes /\ task.isPaused /\ ~task.isStopped
      /\ _interruptions' = _interruptions)
       => /\ task'.presented = task.presented
          /\ task'.trials = task.trials
          /\ task'.isStopped = task.isStopped
          /\ ~SubmitCalled]_vars

\* a step in which a lifecycle listener has called abort("offline") on the
\* registered timed runner at some point before
OfflineAborted ==
  /\ task.type \in TimedTypes /\ task.abortCalled
  /\ \E i \in 1..Len(_interruptions) : _interruptions[i] = "offline"

\* C14: once the registered timed runner has been aborted after an offline
\* event, no later step (online, visibility change, timer) presents a
\* stimulus, records a trial or calls TaskCore.submit.
C14_OfflineIsTerminal ==
  [][OfflineAborted
       => /\ task'.presented = task.presented
          /\ task'.trials = task.trials
          /\ task'.isStopped
          /\ ~SubmitCalled]_vars

\* C18: every connectivity change appends one interruption event of its
\* type: offline for an offline event, online for an online event.
C18_ConnectivityChangeLogged ==
  [][(online' # online)
       => /\ Len(_interruptions') = Len(_interruptions) + 1
          /\ _interruptions'[Len(_interruptions')] =
               (IF online' THEN "online" ELSE "offline")]_vars

C13_NoReactionTimeAcrossPause ==
  \A i \in 1..Len(task.trials) :
    (task.trials[i].responded /\ task.trials[i].stim > 0) => ~task.trials[i].paused

\* a response was recorded for a stimulus presented after a pause and resume
C13_Witness ==
  /\ task.type \in TimedTypes /\ task.pausedAt > 0 /\ task.lastCall = "resume"
  /\ \E i \in 1..Len(task.trials) :
       task.trials[i].responded /\ task.trials[i].stim >= task.pausedAt

C20_DistinctTasksDistinctDraws ==
  (/\ rng.a.task # "none" /\ rng.b.task # "none" /\ rng.a.task # rng.b.task
   /\ Len(rng.a.out) >= 2 /\ Len(rng.a.out) = Len(rng.b.out))
    => rng.a.out # rng.b.out

\* C15: a task superseded by registerTask is terminal and has no timer
\* pending from the registration on, and no later step of it calls
\* TaskCore.submit.
C15_SupersededRunnerIsAborted ==
  [][/\ prev'.type \in TimedTypes => (prev'.isStopped /\ PendingTimers(prev') = 0)
     /\ (prev.type # "none" /\ prev' # prev) => ~SubmitCalled]_vars

\* a step in which a lifecycle listener logs an event
EventLogged == Len(_interruptions') = Len(_interruptions) + 1

\* what the listener of the logged event has to call on the registered task
MethodFor(event) ==
  CASE event = "visibility_hidden"  -> "pause"
    [] event = "visibility_visible" -> "resume"
    [] OTHER                        -> event

C11_EndsAfterDurationOfRunningTime ==
  [][(~task.isStopped /\ task'.isStopped /\ SubmitCalled)
       => clock.elapsed - clock.paused >= DurationTicks]_vars

\* C23: a pvt tap made during the inter-stimulus wait appends one
\* anticipation record without a stimulus (so without a reaction time and not
\* a lapse), presents nothing, and leaves exactly one onset pending: the one
\* of the wait it has just started.
C23_TapBeforeOnsetRestartsWait ==
  [][(/\ task.type = "pvt"
      /\ Len(task'.trials) = Len(task.trials) + 1
      /\ task'.trials[Len(task'.trials)].stim = 0)
       => /\ task'.trials[Len(task'.trials)].responded
          /\ task'.stimulusStartMs = "null"
          /\ task'.presented = task.presented
          /\ task'.cur["isiTimer"] = "isi"
          /\ task'.leaked["isi"] = 0]_vars

\* C27: the flanker task holds at most one trial record for each stimulus
\* it has presented.
C27_OneRecordPerFlankerStimulus ==
  task.type = "flanker" =>
    /\ Len(task.trials) <= task.presented
    /\ \A i, j \in 1..Len(task.trials) :
         i # j => task.trials[i].stim # task.trials[j].stim

\* the records of taps on a visible pvt stimulus
StimulusTaps ==
  {i \in 1..Len(built.trials) :
     built.task = "pvt" /\ built.trials[i].responded /\ built.trials[i].onset # <<>>}

\* the time between the onset and the tap of record i, in half-milliseconds
Latency(i) == built.trials[i].at - built.trials[i].onset[1]

\* C21 as stated: every pvt tap that follows the onset of the visible
\* stimulus by less than 100 ms is recorded as an anticipation.
C21_LatencyBelow100IsAnticipation ==
  \A i \in StimulusTaps :
    Latency(i) < 2 * ANTICIPATION_THRESHOLD => built.trials[i].is_anticipation

\* C21, amended: every pvt tap on a visible stimulus whose latency rounded to
\* the millisecond (its rt_ms) is below 100 is recorded as an anticipation and
\* not as a lapse; that is every tap less than 99.5 ms behind the onset.
C21_RoundedLatencyBelow100IsAnticipation ==
  \A i \in StimulusTaps :
    /\ built.trials[i].rt_ms # <<>>
    /\ (Latency(i) < (2 * ANTICIPATION_THRESHOLD) - 1) => built.trials[i].rt_ms[1] < 100
    /\ built.trials[i].rt_ms[1] < 100
         => (built.trials[i].is_anticipation /\ ~built.trials[i].is_lapse)

\* a tap 99 ms behind the onset, recorded as an anticipation
C21_Witness ==
  \E i \in StimulusTaps :
    Latency(i) = 198 /\ built.trials[i].rt_ms = <<99>> /\ built.trials[i].is_anticipation

\* C22 as stated: a pvt tap at r on a stimulus shown at s is recorded with
\* rt_ms = r - s, is_anticipation exactly when rt_ms < 100, is_lapse exactly
\* when rt_ms > 500, and never both.
C22_ReactionTimeIsDifference ==
  \A i \in StimulusTaps :
    /\ built.trials[i].rt_ms # <<>>
    /\ 2 * built.trials[i].rt_ms[1] = Latency(i)
    /\ built.trials[i].is_anticipation <=> (built.trials[i].rt_ms[1] < 100)
    /\ built.trials[i].is_lapse <=> (built.trials[i].rt_ms[1] > 500)
    /\ ~(built.trials[i].is_anticipation /\ built.trials[i].is_lapse)

\* C22, amended: rt_ms is r - s rounded to the nearest millisecond (a half
\* rounds up), and the flags are as stated: is_anticipation exactly when
\* rt_ms < 100, is_lapse exactly when rt_ms > 500, never both, neither at
\* rt_ms 100, 300 or 500.
C22_ReactionTimeIsRoundedDifference ==
  \A i \in StimulusTaps :
    /\ built.trials[i].rt_ms # <<>>
    /\ 2 * built.trials[i].rt_ms[1] \in {Latency(i), Latency(i) + 1}
    /\ built.trials[i].is_anticipation <=> (built.trials[i].rt_ms[1] < 100)
    /\ built.trials[i].is_lapse <=> (built.trials[i].rt_ms[1] > 500)
    /\ ~(built.trials[i].is_anticipation /\ built.trials[i].is_lapse)
    /\ built.trials[i].rt_ms[1] \in {100, 300, 500}
         => (~built.trials[i].is_anticipation /\ ~built.trials[i].is_lapse)

\* onset at 1200 ms, tap at 1500 ms: rt_ms 300 and neither flag
C22_Witness ==
  \E i \in StimulusTaps :
    /\ built.trials[i].onset = <<2400>> /\ built.trials[i].at = 3000
    /\ built.trials[i].rt_ms = <<300>>
    /\ ~built.trials[i].is_anticipation /\ ~built.trials[i].is_lapse

\* C24: every draw is a 32-bit unsigned value over 2^32, so in [0,1), and
\* every pvt wait computed from a draw is at least 2000 and below 10000 ms.
C24_DrawsAndWaitsInRange ==
  \A g \in {rng.a, rng.b} :
    \A i \in 1..Len(g.out) :
      /\ g.out[i] \in Word32
      /\ g.task = "pvt" => (randomISI(g.out[i]) >= ISI_MIN /\ randomISI(g.out[i]) < ISI_MAX)

\* a pvt generator has given two draws, one of them a wait above 9000 ms
C24_Witness ==
  /\ rng.a.task = "pvt" /\ Len(rng.a.out) >= 2
  /\ \E i \in 1..Len(rng.a.out) : randomISI(rng.a.out[i]) > 9000

\* C25: in every sart record is_commission is true exactly when the
\* participant responded and the digit is 3, is_omission exactly when the
\* participant did not respond and the digit is not 3, and never both.
C25_CommissionAndOmissionFlags ==
  built.task = "sart" =>
    \A i \in 1..Len(built.trials) :
      LET t == built.trials[i] IN
      /\ t.is_commission <=> (t.responded /\ t.digit = 3)
      /\ t.is_omission <=> (~t.responded /\ t.digit # 3)
      /\ ~(t.is_commission /\ t.is_omission)

\* a tap on a 3 and a missed 3 have both been recorded
C25_Witness ==
  /\ built.task = "sart"
  /\ \E i, j \in 1..Len(built.trials) :
       /\ built.trials[i].digit = 3 /\ built.trials[i].responded
       /\ built.trials[i].is_commission
       /\ built.trials[j].digit = 3 /\ ~built.trials[j].responded
       /\ ~built.trials[j].is_omission

\* the direction an arrow points in
Pointing(arrow) == IF arrow = "<" THEN "left" ELSE "right"

\* the centre of the row points in the trial's direction, and the four
\* flankers agree with the centre exactly when the trial is congruent
RowAsStated(t) ==
  /\ Len(t.arrows) = 5
  /\ Pointing(t.arrows[3]) = t.direction
  /\ (\A k \in {1, 2, 4, 5} : t.arrows[k] = t.arrows[3]) <=> t.is_congruent
  /\ \A k \in {1, 2, 4, 5} : t.arrows[k] = t.arrows[1]

\* C28: every flanker row displayed and every row recorded has its centre
\* arrow pointing in the trial's direction and its flankers agreeing with the
\* centre exactly when the trial is congruent, and a recorded response is
\* correct exactly when it is the direction of the centre arrow.
C28_RowAndCorrectness ==
  built.task = "flanker" =>
    /\ \A k \in 1..Len(built.currentTrial) : RowAsStated(built.currentTrial[k])
    /\ \A i \in 1..Len(built.trials) :
         /\ RowAsStated(built.trials[i])
         /\ built.trials[i].responded
              => (built.trials[i].correct
                    <=> built.trials[i].response[1] = Pointing(built.trials[i].arrows[3]))

\* a wrong response to an incongruent row and a right one to a congruent row
C28_Witness ==
  /\ built.task = "flanker"
  /\ \E i, j \in 1..Len(built.trials) :
       /\ ~built.trials[i].is_congruent /\ built.trials[i].responded
       /\ ~built.trials[i].correct
       /\ built.trials[j].is_congruent /\ built.trials[j].correct

\* the elements of a sequence
Range(a) == {a[i] : i \in 1..Len(a)}

\* b holds the elements of a, each as often as a does
IsPermutation(a, b) ==
  /\ Len(a) = Len(b)
  /\ \A x \in Range(a) \cup Range(b) :
       Cardinality({i \in 1..Len(a) : a[i] = x}) = Cardinality({i \in 1..Len(b) : b[i] = x})

\* C29: the symbol key is a permutation of SYMBOL_POOL, so a bijection from
\* the digits 1..9 onto the nine symbols; building it leaves SYMBOL_POOL as it
\* was; and no later step changes the key.
C29_SymbolMapIsFixedBijection ==
  [][/\ ds'.task = "digit_symbol"
        => /\ ds'.pool = SYMBOL_POOL
           /\ IsPermutation(SYMBOL_POOL, ds'.symbolMap)
           /\ Len(ds'.symbolMap) = 9
           /\ \A d1, d2 \in 1..9 : d1 # d2 => ds'.symbolMap[d1] # ds'.symbolMap[d2]
           /\ Range(ds'.symbolMap) = Range(SYMBOL_POOL)
     /\ ds.task = "digit_symbol" => ds'.symbolMap = ds.symbolMap]_vars

\* the third trial of a session whose key is not SYMBOL_POOL in its order
C29_Witness ==
  /\ ds.task = "digit_symbol" /\ ds.shown = 3
  /\ ds.symbolMap # SYMBOL_POOL

\* C30: every digit-symbol trial has four option buttons with pairwise
\* distinct symbols; exactly one shows the symbol of the target digit, and the
\* other three show symbols of digits other than the target.
C30_FourDistinctOptionsOneCorrect ==
  ds.task = "digit_symbol" =>
    /\ Len(ds.options) = 4
    /\ ds.targetDigit \in 1..9
    /\ \A i \in 1..4 : ds.options[i] \in 1..9
    /\ \A i, j \in 1..4 :
         i # j => ds.symbolMap[ds.options[i]] # ds.symbolMap[ds.options[j]]
    /\ Cardinality({i \in 1..4 : ds.symbolMap[ds.options[i]]
                                   = ds.symbolMap[ds.targetDigit]}) = 1
    /\ Cardinality({i \in 1..4 : ds.options[i] # ds.targetDigit}) = 3

\* a trial whose correct option is not the first button
C30_Witness ==
  /\ ds.task = "digit_symbol" /\ ds.shown >= 2
  /\ ds.options[1] # ds.targetDigit

\* C26: a sart run that is never paused or aborted ends when durationMs has
\* passed since init and not before, and it is the duration timer that ends
\* it.
C26_SartEndsAtDuration ==
  (run.task = "sart" /\ run.isStopped)
    => (run.now = run.durationMs /\ run.endedBy = "timer")

\* C32: once abort(reason) has been delivered to the mood task, participant
\* input is ignored: no step changes a rating and no step calls
\* TaskCore.submit for that run.
C32_MoodIgnoresInputAfterAbort ==
  [][(task.type = "mood" /\ task.abortCalled
        /\ task'.type = "mood" /\ task'.abortCalled)
       => (task'.ratings = task.ratings /\ ~SubmitCalled)]_vars

\* the pending timers that pace the trials of t: every timer but the
\* duration timer and the animation frame
PacingTimers(t) ==
  Cardinality({h \in {"isiTimer", "noResponseTimer", "trialTimer"} : t.cur[h] # "none"})
  + t.leaked["isi"] + t.leaked["noResp"] + t.leaked["t1"] + t.leaked["t2"]

\* C38: whatever pause() and resume() calls and timer firings have happened,
\* a timed runner has at most one trial-pacing timer pending, so one chain
\* presents and records the trials.
C38_OnePacingChain ==
  task.type \in TimedTypes => PacingTimers(task) <= 1

\* C33: the terminal state of a timed runner is set once.  From a terminal
\* state no step (abort() calls, task-end timer firings and endTask
\* invocations among them) changes isStopped, isRunning or whether endTask's
\* body has run (completed) or not (aborted), and no step calls
\* TaskCore.submit.
C33_TerminalStateSetOnce ==
  [][(task.type \in TimedTypes /\ task.isStopped)
       => /\ task'.isStopped
          /\ task'.isRunning = task.isRunning
          /\ task'.endedBy = task.endedBy
          /\ ~SubmitCalled]_vars

\* abort(reason) was called on a runner that had completed and submitted
C33_Witness ==
  /\ task.type \in TimedTypes /\ task.isStopped /\ ~task.isRunning
  /\ task.endedBy # "none" /\ task.abortCalled
  /\ Len(submits) = 1

\* C34: in a sart run that is never paused or aborted, consecutive stimulus
\* onsets are STIMULUS_MS + ISI_MS = 1150 ms apart, the trial duration the
\* sequence is sized with.
C34_SartOnsetsTrialDurationApart ==
  [][(run.task = "sart" /\ run'.task = "sart" /\ run'.seqIndex = run.seqIndex + 1)
       => run'.currentTrialStart - run.currentTrialStart = STIMULUS_MS + ISI_MS]_vars

\* the records of t written for its k-th stimulus
RecordsOf(t, k) == {i \in 1..Len(t.trials) : t.trials[i].stim = k}

\* C35: a sart trial yields exactly one record: no digit of the sequence has
\* two records (a tap is recorded once and suppresses the non-response
\* record), and the step that closes the cycle of a digit nobody tapped
\* writes its non-response record.
C35_SartOneRecordPerTrial ==
  task.type = "sart" =>
    \A k \in 1..SeqLen : Cardinality(RecordsOf(task, k)) <= 1

\* C36: no pvt stimulus has two records, and a step that takes a shown pvt
\* stimulus away (the tap, the no-response callback, a new stimulus) while
\* the runner is neither paused nor terminal writes the one record of that
\* stimulus.
C36_PvtOneRecordPerStimulus ==
  [][(task.type = "pvt" /\ task'.type = "pvt")
       => /\ \A k \in 1..MaxStim : Cardinality(RecordsOf(task', k)) <= 1
          /\ ( /\ task.stimulusStartMs = "set"
               /\ task'.stimulusStartMs = "null" \/ task'.presented > task.presented
               /\ ~task.isPaused /\ ~task'.isPaused
               /\ ~task.isStopped /\ ~task'.isStopped )
               => /\ Len(task'.trials) = Len(task.trials) + 1
                  /\ task'.trials[Len(task'.trials)].stim = task.presented]_vars

C40_BodyCarriesInitSessionId ==
  \A i \in Calls :
    /\ submits[i].after = submits[i].given
    /\ submits[i].fetched => (submits[i].session_id = "sid" /\ _sessionId = "sid")

\* a request went out for a payload whose session_id is another session's
C40_Witness ==
  \E i \in Calls : /\ submits[i].fetched
                   /\ submits[i].given.session_id = "other"
                   /\ submits[i].after.session_id = "other"

\* C31: the submit button of the mood task is enabled only when all four
\* scales have a value; the values are integers in 1..5, each the one the
\* participant selected last on its scale; and the trials and the summary of
\* a submission carry those values.
C31_MoodSubmitsLatestRatings ==
  [][task'.type = "mood"
       => /\ ~task'.submitDisabled => \A s \in SCALES : task'.ratings[s] \in 1..5
          /\ built'.task = "mood" => task'.ratings = built'.selected
          /\ SubmitCalled
               => /\ ~task.submitDisabled
                  /\ \A s \in SCALES : built.selected[s] \in 1..5
                  /\ submits'[Len(submits')].given.trials = <<built.selected>>
                  /\ submits'[Len(submits')].given.summary = built.selected]_vars

\* two submissions, the second after valence was changed from 1 to 5
C31_Witness ==
  /\ task.type = "mood" /\ Len(submits) = 2
  /\ submits[1].given.summary.valence = 1
  /\ submits[2].given.summary.valence = 5
  /\ submits[2].given.trials[1].valence = 5

\* C39: two runs of a timed task with the same seed present prefixes of one
\* sequence of stimuli, whatever the responses, pauses and resumes of each:
\* the k-th stimulus presented (pvt interval, flanker row, sart digit,
\* digit-symbol trial) is the same in both.
C39_StimuliIndependentOfBehaviour ==
  rng.a.task \in TimedTypes =>
    \A k \in 1..MaxShown :
      (k <= Len(rng.a.shown) /\ k <= Len(rng.b.shown))
        => rng.a.shown[k] = rng.b.shown[k]

\* one run is at its third stimulus with no response to it, the other took a
\* response to its second stimulus and is paused
C39_Witness ==
  /\ rng.a.task = "flanker"
  /\ Len(rng.a.shown) = 3 /\ Len(rng.b.shown) = 2
  /\ ~rng.a.responded /\ rng.b.responded /\ rng.b.isPaused
  /\ rng.a.shown[2] # rng.a.shown[1]

====
